---- MODULE Spec2Model ----
(***************************************************************************)
(* CardVault: the SQLite-backed card store (store.rs) and the HTTP         *)
(* handlers that coordinate it with the uploads directory (handlers.rs).   *)
(*                                                                         *)
(* Text is modelled as a sequence of ASCII codes, so that LIKE matching,   *)
(* trimming and ORDER BY on text are computed as SQLite and Rust compute   *)
(* them.  A table is a set of rows; every AUTOINCREMENT table has its      *)
(* sqlite_sequence counter in db.seq.                                      *)
(***************************************************************************)
EXTENDS Integers, Sequences, FiniteSets, TLC

VARIABLES
    db,      \* the SQLite database behind the shared connection
    now,     \* the wall clock (CURRENT_TIMESTAMP, SystemTime::now)
    last,    \* the most recent repository call and what it returned
    lock,    \* holder of the connection mutex (0 = free)
    procs,   \* the concurrent requests: per request its position and locals
    files,   \* the files under the uploads root
    faults,  \* the statement failures injected so far
    arrived  \* the requests that have arrived so far

vars == <<db, now, last, lock, procs, files, faults, arrived>>

(***************************************************************************)
(* Bounds of the model.                                                    *)
(***************************************************************************)
MaxCards == 2      \* card rows ever inserted
MaxRows  == 3      \* rows ever inserted into one child table
MaxClock == 1      \* the latest second the host clock shows
MaxFaults == 1     \* statement failures in one behaviour
MaxRequests == 3   \* requests arriving in one behaviour

(***************************************************************************)
(* The host clock.  now is its reading in milliseconds since the epoch:    *)
(* SystemTime::now().duration_since(UNIX_EPOCH).as_millis() in save_photo; *)
(* SQLite's CURRENT_TIMESTAMP shows the same clock to the second.  It is   *)
(* the wall clock: it may stand still between two readings, advance, or be *)
(* set back.                                                               *)
(***************************************************************************)
\* the readings at the start of a second
Seconds == {1000 * s : s \in 0..MaxClock}

\* the readings told apart: the starts of the seconds and the millisecond
\* after the first
Instants == Seconds \cup {1}

\* CURRENT_TIMESTAMP ("YYYY-MM-DD HH:MM:SS") when the clock reads t, as the
\* number of whole seconds
CURRENT_TIMESTAMP(t) == t \div 1000

(***************************************************************************)
(* Text                                                                    *)
(***************************************************************************)
\* ASCII codes used below: 32 ' ', 37 '%', 95 '_', 49 '1', 50 '2',
\* 65 'A', 66 'B', 97 'a', 98 'b', 99 'c'.

Max(S) == CHOOSE x \in S : \A y \in S : y <= x

\* char::to_lowercase / SQLite's LIKE case folding, on ASCII
to_lowercase(c) == IF c >= 65 /\ c <= 90 THEN c + 32 ELSE c

\* char::is_whitespace on ASCII
is_whitespace(c) == c = 32 \/ (c >= 9 /\ c <= 13)

\* str::trim: strip leading and trailing whitespace
RECURSIVE trim_start(_)
trim_start(s) ==
    IF s = <<>> THEN <<>>
    ELSE IF is_whitespace(Head(s)) THEN trim_start(Tail(s)) ELSE s

RECURSIVE trim_end(_)
trim_end(s) ==
    IF s = <<>> THEN <<>>
    ELSE IF is_whitespace(s[Len(s)]) THEN trim_end(SubSeq(s, 1, Len(s) - 1)) ELSE s

trim(s) == trim_end(trim_start(s))

\* SQLite BINARY collation: memcmp, the shorter text first on a common prefix
RECURSIVE TextLess(_, _)
TextLess(a, b) ==
    IF b = <<>> THEN FALSE
    ELSE IF a = <<>> THEN TRUE
    ELSE IF Head(a) # Head(b) THEN Head(a) < Head(b)
    ELSE TextLess(Tail(a), Tail(b))

\* SQLite's LIKE operator without ESCAPE: '%' matches any run of characters,
\* '_' matches exactly one character, any other character matches itself
\* ignoring ASCII case.
RECURSIVE Like(_, _)
Like(text, pattern) ==
    IF pattern = <<>> THEN text = <<>>
    ELSE IF Head(pattern) = 37
         THEN Like(text, Tail(pattern))
              \/ (text # <<>> /\ Like(Tail(text), pattern))
    ELSE /\ text # <<>>
         /\ \/ Head(pattern) = 95
            \/ to_lowercase(Head(pattern)) = to_lowercase(Head(text))
         /\ Like(Tail(text), Tail(pattern))

\* format!("%{search}%")
LikePattern(search) == <<37>> \o search \o <<37>>

\* The elements of a set of texts as a sequence in ascending BINARY order
RECURSIVE SortTexts(_)
SortTexts(S) ==
    IF S = {} THEN <<>>
    ELSE LET m == CHOOSE x \in S : \A y \in S : y = x \/ TextLess(x, y)
         IN <<m>> \o SortTexts(S \ {m})

\* The rows of a set as a sequence in ascending id order (ORDER BY id)
RECURSIVE SortById(_)
SortById(S) ==
    IF S = {} THEN <<>>
    ELSE LET m == CHOOSE x \in S : \A y \in S : x.id <= y.id
         IN <<m>> \o SortById(S \ {m})

Range(s) == {s[i] : i \in 1..Len(s)}

\* Option<T>: None is <<>>, Some(x) is <<x>>
None == <<>>
Some(x) == <<x>>

(***************************************************************************)
(* models.rs: CardInput and the inputs the requests draw from              *)
(***************************************************************************)
CardFormPhoneInput(label, number) == [label |-> label, number |-> number]
CardFormEmailInput(label, address) == [label |-> label, address |-> address]
CardFormAddressInput(label, street, city, country, postal) ==
    [label |-> label, street |-> street, city |-> city,
     country |-> country, postal |-> postal]

CardInput(name, title, company, website, notes, phones, emails, addresses, tags) ==
    [name |-> name, title |-> title, company |-> company, website |-> website,
     notes |-> notes, phones |-> phones, emails |-> emails,
     addresses |-> addresses, tags |-> tags]

\* "Ab": two phones, one address, no email; tags "b", " ", "a", "b"
InputA ==
    CardInput(<<65, 98>>, <<>>, <<>>, <<>>, <<>>,
              <<CardFormPhoneInput(<<97>>, <<50>>), CardFormPhoneInput(<<98>>, <<49>>)>>,
              <<>>,
              <<CardFormAddressInput(<<97>>, <<49>>, <<97>>, <<98>>, <<50>>)>>,
              <<<<98>>, <<32>>, <<97>>, <<98>>>>)

\* "B" at company "aa": two emails "a", "bA"; tag "b"
InputB ==
    CardInput(<<66>>, <<97>>, <<97, 97>>, <<98>>, <<49>>,
              <<>>,
              <<CardFormEmailInput(<<98>>, <<97>>),
                CardFormEmailInput(<<97>>, <<98, 65>>)>>,
              <<>>,
              <<<<98>>>>)

\* "a": one phone, one email "b_"; tags "a", "A"
InputC ==
    CardInput(<<97>>, <<98>>, <<>>, <<>>, <<>>,
              <<CardFormPhoneInput(<<97>>, <<49>>)>>,
              <<CardFormEmailInput(<<97>>, <<98, 95>>)>>,
              <<>>,
              <<<<97>>, <<65>>>>)

Inputs == {InputA, InputB, InputC}

\* the text queries and tag filters of list requests
\* "a", "AB", "_"; "a", "A"
Queries == {<<97>>, <<65, 66>>, <<95>>}
TagFilters == {<<97>>, <<65>>}

(***************************************************************************)
(* store.rs init_db: the schema                                            *)
(***************************************************************************)
\* INTEGER PRIMARY KEY AUTOINCREMENT: the new rowid is one more than the
\* largest rowid the table has ever held (sqlite_sequence), never a
\* rowid of a deleted row.
NextRowidReuse(ids, seq) == Max(ids \cup {0}) + 1

NextRowid(ids, seq) == Max(ids \cup {seq}) + 1

Ids(rows) == {r.id : r \in rows}

\* the database after init_db on a new file
init_db ==
    [cards |-> {}, card_phones |-> {}, card_emails |-> {}, card_addresses |-> {},
     tags |-> {}, card_tags |-> {},
     seq |-> [cards |-> 0, card_phones |-> 0, card_emails |-> 0,
              card_addresses |-> 0, tags |-> 0]]

CardExists(d, id) == \E c \in d.cards : c.id = id

\* an UPDATE whose affected row count is not looked at
RowsUpdatedUnchecked(d, id) == 1

\* conn.execute("UPDATE cards SET ... WHERE id=?"): the number of rows changed
RowsUpdated(d, id) == Cardinality({c \in d.cards : c.id = id})

CardRow(d, id) == CHOOSE c \in d.cards : c.id = id

(***************************************************************************)
(* The SQL statements of store.rs, each an autocommitted step              *)
(***************************************************************************)
\* INSERT INTO cards (name, title, company, website, notes) VALUES (...)
InsertCard(d, input, t) ==
    LET id == NextRowid(Ids(d.cards), d.seq.cards)
    IN [d EXCEPT
          !.cards = @ \cup {[id |-> id, name |-> input.name, title |-> input.title,
                             company |-> input.company, website |-> input.website,
                             notes |-> input.notes, photo_path |-> <<>>,
                             created_at |-> t, updated_at |-> t]},
          !.seq.cards = id]

\* INSERT INTO card_phones (card_id, label, number) VALUES (...)
InsertPhone(d, card_id, p) ==
    LET id == NextRowid(Ids(d.card_phones), d.seq.card_phones)
    IN [d EXCEPT
          !.card_phones = @ \cup {[id |-> id, card_id |-> card_id,
                                   label |-> p.label, number |-> p.number]},
          !.seq.card_phones = id]

\* INSERT INTO card_emails (card_id, label, address) VALUES (...)
InsertEmail(d, card_id, e) ==
    LET id == NextRowid(Ids(d.card_emails), d.seq.card_emails)
    IN [d EXCEPT
          !.card_emails = @ \cup {[id |-> id, card_id |-> card_id,
                                   label |-> e.label, address |-> e.address]},
          !.seq.card_emails = id]

\* INSERT INTO card_addresses (card_id, label, street, city, country, postal)
InsertAddress(d, card_id, a) ==
    LET id == NextRowid(Ids(d.card_addresses), d.seq.card_addresses)
    IN [d EXCEPT
          !.card_addresses = @ \cup {[id |-> id, card_id |-> card_id,
                                      label |-> a.label, street |-> a.street,
                                      city |-> a.city, country |-> a.country,
                                      postal |-> a.postal]},
          !.seq.card_addresses = id]

\* an UPDATE that also writes photo_path='' and created_at
UpdateCardResetsPhoto(d, id, input, t) ==
    [d EXCEPT !.cards =
        {IF c.id = id
         THEN [c EXCEPT !.name = input.name, !.title = input.title,
                        !.company = input.company, !.website = input.website,
                        !.notes = input.notes, !.photo_path = <<>>,
                        !.created_at = t, !.updated_at = t]
         ELSE c : c \in @}]

\* UPDATE cards SET name=?1, ..., updated_at=CURRENT_TIMESTAMP WHERE id=?6
UpdateCard(d, id, input, t) ==
    [d EXCEPT !.cards =
        {IF c.id = id
         THEN [c EXCEPT !.name = input.name, !.title = input.title,
                        !.company = input.company, !.website = input.website,
                        !.notes = input.notes, !.updated_at = t]
         ELSE c : c \in @}]

\* a replace that keeps the old phone rows
DeletePhonesKeep(d, card_id) == d

\* DELETE FROM card_phones WHERE card_id = ?1
DeletePhones(d, card_id) ==
    [d EXCEPT !.card_phones = {r \in @ : r.card_id # card_id}]

\* DELETE FROM card_emails WHERE card_id = ?1
DeleteEmails(d, card_id) ==
    [d EXCEPT !.card_emails = {r \in @ : r.card_id # card_id}]

\* DELETE FROM card_addresses WHERE card_id = ?1
DeleteAddresses(d, card_id) ==
    [d EXCEPT !.card_addresses = {r \in @ : r.card_id # card_id}]

\* DELETE FROM card_tags WHERE tag_id IN (the tags of card ?1): the links of
\* the other cards to these tags go as well
DeleteCardTagsShared(d, card_id) ==
    [d EXCEPT !.card_tags =
        {r \in @ : ~\E x \in d.card_tags :
                       x.card_id = card_id /\ x.tag_id = r.tag_id}]

\* DELETE FROM card_tags WHERE card_id = ?1
DeleteCardTags(d, card_id) ==
    [d EXCEPT !.card_tags = {r \in @ : r.card_id # card_id}]

\* INSERT INTO tags (name) VALUES (?1) on a name column that is not UNIQUE
InsertTagDuplicate(d, name) ==
    LET id == NextRowid(Ids(d.tags), d.seq.tags)
    IN [d EXCEPT !.tags = @ \cup {[id |-> id, name |-> name]},
                 !.seq.tags = id]

\* INSERT OR IGNORE INTO tags (name) VALUES (?1): name is UNIQUE, compared
\* byte for byte.  AUTOINCREMENT allocates the rowid, and records it in
\* sqlite_sequence, before the conflict is found: a name already present
\* leaves the rows as they are and still advances the counter.
InsertTag(d, name) ==
    LET id == NextRowid(Ids(d.tags), d.seq.tags)
    IN IF \E t \in d.tags : t.name = name
       THEN [d EXCEPT !.seq.tags = id]
       ELSE [d EXCEPT !.tags = @ \cup {[id |-> id, name |-> name]},
                      !.seq.tags = id]

\* SELECT id FROM tags WHERE name = ?1
SelectTagId(d, name) == {t.id : t \in {x \in d.tags : x.name = name}}

\* INSERT OR IGNORE INTO card_tags (card_id, tag_id) VALUES (?1, ?2):
\* PRIMARY KEY (card_id, tag_id)
InsertCardTag(d, card_id, tag_id) ==
    [d EXCEPT !.card_tags = @ \cup {[card_id |-> card_id, tag_id |-> tag_id]}]

\* DELETE FROM cards WHERE id = ?1 that also collects the tags left unlinked
DeleteCardGcTags(d, id) ==
    LET links == {r \in d.card_tags : r.card_id # id}
    IN [d EXCEPT !.cards = {c \in @ : c.id # id},
                 !.card_phones = {r \in @ : r.card_id # id},
                 !.card_emails = {r \in @ : r.card_id # id},
                 !.card_addresses = {r \in @ : r.card_id # id},
                 !.card_tags = links,
                 !.tags = {t \in @ : \E r \in links : r.tag_id = t.id}]

\* DELETE FROM cards WHERE id = ?1, without the cascade
DeleteCardNoCascade(d, id) ==
    [d EXCEPT !.cards = {c \in @ : c.id # id}]

\* DELETE FROM cards WHERE id = ?1, with PRAGMA foreign_keys=ON: ON DELETE
\* CASCADE removes the card's phones, emails, addresses and tag links.
DeleteCard(d, id) ==
    [d EXCEPT !.cards = {c \in @ : c.id # id},
              !.card_phones = {r \in @ : r.card_id # id},
              !.card_emails = {r \in @ : r.card_id # id},
              !.card_addresses = {r \in @ : r.card_id # id},
              !.card_tags = {r \in @ : r.card_id # id}]

\* UPDATE cards SET photo_path=?1 WHERE id=?2: updated_at left as it was
UpdatePhotoPathKeepsTime(d, id, path, t) ==
    [d EXCEPT !.cards =
        {IF c.id = id THEN [c EXCEPT !.photo_path = path] ELSE c : c \in @}]

\* UPDATE cards SET photo_path=?1, updated_at=CURRENT_TIMESTAMP WHERE id=?2
UpdatePhotoPath(d, id, path, t) ==
    [d EXCEPT !.cards =
        {IF c.id = id THEN [c EXCEPT !.photo_path = path, !.updated_at = t]
         ELSE c : c \in @}]

\* SELECT '' FROM cards WHERE id = ?1: the stored path is not read
SelectPhotoPathBlank(d, id) ==
    IF CardExists(d, id) THEN Some(<<>>) ELSE None

\* SELECT photo_path FROM cards WHERE id = ?1, .optional()
SelectPhotoPath(d, id) ==
    IF CardExists(d, id) THEN Some(CardRow(d, id).photo_path) ELSE None

(***************************************************************************)
(* store.rs fetch_card_by_id: hydration of one card                        *)
(***************************************************************************)
\* SELECT id, name, ..., updated_at FROM cards WHERE id = ?1, mapped to a
\* Card with empty collections; photo_url is "" or "/" + photo_path
SelectCard(d, id) ==
    IF ~CardExists(d, id) THEN None
    ELSE LET c == CardRow(d, id)
         IN Some([id |-> c.id, name |-> c.name, title |-> c.title,
                  company |-> c.company, website |-> c.website, notes |-> c.notes,
                  photo_url |-> IF c.photo_path = <<>> THEN <<>>
                                ELSE <<47>> \o c.photo_path,
                  phones |-> <<>>, emails |-> <<>>, addresses |-> <<>>,
                  tags |-> <<>>,
                  created_at |-> c.created_at, updated_at |-> c.updated_at])

\* SELECT id, label, number FROM card_phones WHERE card_id = ?1 ORDER BY id
SelectPhones(d, id) ==
    LET rows == SortById({r \in d.card_phones : r.card_id = id})
    IN [i \in 1..Len(rows) |->
          [id |-> rows[i].id, label |-> rows[i].label, number |-> rows[i].number]]

\* SELECT id, label, address FROM card_emails WHERE card_id = ?1 ORDER BY id
SelectEmails(d, id) ==
    LET rows == SortById({r \in d.card_emails : r.card_id = id})
    IN [i \in 1..Len(rows) |->
          [id |-> rows[i].id, label |-> rows[i].label, address |-> rows[i].address]]

\* SELECT id, label, street, city, country, postal FROM card_addresses
\* WHERE card_id = ?1 ORDER BY id
SelectAddresses(d, id) ==
    LET rows == SortById({r \in d.card_addresses : r.card_id = id})
    IN [i \in 1..Len(rows) |->
          [id |-> rows[i].id, label |-> rows[i].label, street |-> rows[i].street,
           city |-> rows[i].city, country |-> rows[i].country,
           postal |-> rows[i].postal]]

\* SELECT t.name FROM tags t JOIN card_tags ct ON ct.tag_id = t.id
\* WHERE ct.card_id = ?1 ORDER BY t.name
SelectTags(d, id) ==
    SortTexts({t.name : t \in {x \in d.tags :
                  \E ct \in d.card_tags : ct.card_id = id /\ ct.tag_id = x.id}})

fetch_card_by_id(d, id) ==
    LET card_opt == SelectCard(d, id)
    IN IF card_opt = None THEN None
       ELSE Some([card_opt[1] EXCEPT !.phones = SelectPhones(d, id),
                                     !.emails = SelectEmails(d, id),
                                     !.addresses = SelectAddresses(d, id),
                                     !.tags = SelectTags(d, id)])

(***************************************************************************)
(* store.rs list_cards: the four id queries                                *)
(***************************************************************************)
\* cards c LEFT JOIN card_emails ce ON ce.card_id = c.id: one row per email
\* of the card, or one row with ce NULL for a card without emails
LeftJoinEmails(d) ==
    {[c |-> c, ce |-> Some(e)] :
        <<c, e>> \in {x \in d.cards \X d.card_emails : x[2].card_id = x[1].id}}
    \cup {[c |-> c, ce |-> None] :
            c \in {x \in d.cards : ~\E e \in d.card_emails : e.card_id = x.id}}

\* c.name LIKE ?p OR c.company LIKE ?p OR ce.address LIKE ?p  (NULL LIKE ?p
\* is not true)
LikeAny(r, pattern) ==
    \/ Like(r.c.name, pattern)
    \/ Like(r.c.company, pattern)
    \/ (r.ce # None /\ Like(r.ce[1].address, pattern))

\* JOIN card_tags ct ON ct.card_id = c.id JOIN tags t ON t.id = ct.tag_id
\* WHERE t.name = ?1
TaggedIgnoringCase(d, card_id, tag_filter) ==
    \E ct \in d.card_tags : \E t \in d.tags :
        /\ ct.card_id = card_id /\ t.id = ct.tag_id
        /\ [i \in 1..Len(t.name) |-> to_lowercase(t.name[i])]
             = [i \in 1..Len(tag_filter) |-> to_lowercase(tag_filter[i])]

Tagged(d, card_id, tag_filter) ==
    \E ct \in d.card_tags : \E t \in d.tags :
        ct.card_id = card_id /\ t.id = ct.tag_id /\ t.name = tag_filter

\* SELECT DISTINCT c.id ...: the ids selected for (q, tag), as a set
SelectIds(d, q, tag) ==
    IF q # None /\ tag # None
    THEN {r.c.id : r \in {x \in LeftJoinEmails(d) :
              Tagged(d, x.c.id, tag[1]) /\ LikeAny(x, LikePattern(q[1]))}}
    ELSE IF q # None
    THEN {r.c.id : r \in {x \in LeftJoinEmails(d) : LikeAny(x, LikePattern(q[1]))}}
    ELSE IF tag # None
    THEN {c.id : c \in {x \in d.cards : Tagged(d, x.id, tag[1])}}
    ELSE Ids(d.cards)

\* the selected ids in any order: the statement without its ORDER BY
IsOrderOfUnordered(d, ord, ids) ==
    /\ Len(ord) = Cardinality(ids)
    /\ Range(ord) = ids

\* ORDER BY c.updated_at DESC: ord is an order of the selected ids the
\* statement may return (the order among equal updated_at is not defined)
IsOrderOf(d, ord, ids) ==
    /\ Len(ord) = Cardinality(ids)
    /\ Range(ord) = ids
    /\ \A i \in 1..Len(ord) : \A j \in 1..Len(ord) :
          i < j => CardRow(d, ord[i]).updated_at >= CardRow(d, ord[j]).updated_at

Orders(d, ids) ==
    {ord \in UNION {[1..n -> ids] : n \in {Cardinality(ids)}} : IsOrderOf(d, ord, ids)}

(***************************************************************************)
(* store.rs list_tags                                                      *)
(***************************************************************************)
\* SELECT t.name, COUNT(ct.card_id) FROM tags t LEFT JOIN card_tags ct
\* ON ct.tag_id = t.id GROUP BY t.id, t.name ORDER BY t.name
SelectTagCountsInnerJoin(d) ==
    LET linked == {t \in d.tags : \E ct \in d.card_tags : ct.tag_id = t.id}
        names == SortTexts({t.name : t \in linked})
    IN [i \in 1..Len(names) |->
          [name |-> names[i],
           count |-> Cardinality({ct \in d.card_tags :
                        \E t \in linked : t.name = names[i] /\ ct.tag_id = t.id})]]

SelectTagCounts(d) ==
    LET names == SortTexts({t.name : t \in d.tags})
    IN [i \in 1..Len(names) |->
          [name |-> names[i],
           count |-> Cardinality({ct \in d.card_tags :
                        \E t \in d.tags : t.name = names[i] /\ ct.tag_id = t.id})]]

(***************************************************************************)
(* The store operations as statement sequences.  A frame is one call of a  *)
(* store function: its arguments, its position pc in the statement         *)
(* sequence, its locals and, once it has returned, its Result in ret.      *)
(***************************************************************************)
Ok(v) == [ok |-> TRUE, val |-> v]
Err(e) == [ok |-> FALSE, val |-> e]

NoInput == <<>>

Frame(op, id, input, path, q, tag) ==
    [op |-> op, id |-> id, input |-> input, path |-> path, q |-> q, tag |-> tag,
     pc |-> 1, tag_id |-> 0, photo_path |-> None, card |-> None,
     ids |-> <<>>, cards |-> <<>>, ret |-> None]

Stmt(s, i) == [s |-> s, i |-> i]

\* upsert_tags_and_link: unlink, then per non-blank tag insert-or-ignore the
\* tag, select its id, insert-or-ignore the link
RECURSIVE TagStmtsFrom(_, _)
TagStmtsFrom(tags, i) ==
    IF i > Len(tags) THEN <<>>
    ELSE (IF trim(tags[i]) = <<>> THEN <<>>
          ELSE <<Stmt("InsertTag", i), Stmt("SelectTagId", i),
                 Stmt("InsertCardTag", i)>>)
         \o TagStmtsFrom(tags, i + 1)

\* upsert_tags_and_link without the blank-name check
upsert_tags_and_link_blank(tags) ==
    <<Stmt("DeleteCardTags", 0)>>
    \o [k \in 1..(3 * Len(tags)) |->
          Stmt(<<"InsertTag", "SelectTagId", "InsertCardTag">>[((k - 1) % 3) + 1],
               ((k - 1) \div 3) + 1)]

upsert_tags_and_link(tags) ==
    <<Stmt("DeleteCardTags", 0)>> \o TagStmtsFrom(tags, 1)

InsertStmts(s, n) == [i \in 1..n |-> Stmt(s, i)]

\* fetch_card_by_id: the card row read, then the phones, emails, addresses
\* and tags of the card; i is 0 in get_card and the position of the id in
\* list_cards
fetch_card_by_id_stmts(i) ==
    <<Stmt("SelectCard", i), Stmt("SelectPhones", i), Stmt("SelectEmails", i),
      Stmt("SelectAddresses", i), Stmt("SelectTags", i)>>

\* for id in ids { fetch_card_by_id(&conn, id)? }
RECURSIVE FetchStmtsFrom(_, _)
FetchStmtsFrom(n, i) ==
    IF i > n THEN <<>> ELSE fetch_card_by_id_stmts(i) \o FetchStmtsFrom(n, i + 1)

\* the statements of a call, in program order
Program(fr) ==
    CASE fr.op = "create_card" ->
           <<Stmt("InsertCard", 0)>>
           \o InsertStmts("InsertPhone", Len(fr.input.phones))
           \o InsertStmts("InsertEmail", Len(fr.input.emails))
           \o InsertStmts("InsertAddress", Len(fr.input.addresses))
           \o upsert_tags_and_link(fr.input.tags)
      [] fr.op = "update_card" ->
           <<Stmt("UpdateCard", 0)>>
           \o <<Stmt("DeletePhones", 0)>>
           \o InsertStmts("InsertPhone", Len(fr.input.phones))
           \o <<Stmt("DeleteEmails", 0)>>
           \o InsertStmts("InsertEmail", Len(fr.input.emails))
           \o <<Stmt("DeleteAddresses", 0)>>
           \o InsertStmts("InsertAddress", Len(fr.input.addresses))
           \o upsert_tags_and_link(fr.input.tags)
      [] fr.op = "delete_card" ->
           <<Stmt("SelectPhotoPath", 0), Stmt("DeleteCard", 0)>>
      [] fr.op = "update_card_photo" -> <<Stmt("UpdatePhotoPath", 0)>>
      [] fr.op = "delete_card_photo" ->
           <<Stmt("SelectPhotoPath", 0), Stmt("ClearPhotoPath", 0)>>
      [] fr.op = "get_card" -> fetch_card_by_id_stmts(0)
      [] fr.op = "list_cards" ->
           <<Stmt("SelectIds", 0)>> \o FetchStmtsFrom(Len(fr.ids), 1)
      [] fr.op = "list_tags" -> <<Stmt("SelectTagCounts", 0)>>
      \* handlers.rs health: c.execute_batch("SELECT 1") under conn.lock()
      [] fr.op = "health" -> <<Stmt("SelectOne", 0)>>

\* what the call returns when its last statement has run
ReturnValue(fr) ==
    CASE fr.op = "create_card" -> Ok(fr.id)
      [] fr.op = "delete_card_photo" -> Ok(fr.photo_path)
      [] fr.op = "get_card" -> Ok(fr.card)
      [] fr.op = "list_cards" -> Ok(fr.cards)
      [] OTHER -> Ok(<<>>)

\* One statement of the call: the database and the frame after it.  t is the
\* reading of the host clock at the statement, ord the row order the
\* SelectIds statement returns.
ExecStmt(d, t, fr, ord) ==
    LET st == Program(fr)[fr.pc]
        nx == [fr EXCEPT !.pc = @ + 1]
        same(f) == [db |-> d, fr |-> f]
        fk == CardExists(d, fr.id)
        \* the id fetch_card_by_id is called with
        cid == IF fr.op = "list_cards" /\ st.i > 0 THEN fr.ids[st.i] ELSE fr.id
        fkfail == same([fr EXCEPT !.ret = Some(Err("storage"))])
    IN CASE st.s = "InsertCard" ->
              LET d2 == InsertCard(d, fr.input, CURRENT_TIMESTAMP(t))
              IN [db |-> d2, fr |-> [nx EXCEPT !.id = d2.seq.cards]]
         [] st.s = "InsertPhone" ->
              IF fk THEN [db |-> InsertPhone(d, fr.id, fr.input.phones[st.i]), fr |-> nx]
              ELSE fkfail
         [] st.s = "InsertEmail" ->
              IF fk THEN [db |-> InsertEmail(d, fr.id, fr.input.emails[st.i]), fr |-> nx]
              ELSE fkfail
         [] st.s = "InsertAddress" ->
              IF fk THEN [db |-> InsertAddress(d, fr.id, fr.input.addresses[st.i]),
                          fr |-> nx]
              ELSE fkfail
         [] st.s = "UpdateCard" ->
              \* if updated == 0 { bail!("card not found") }
              IF RowsUpdated(d, fr.id) # 0
              THEN [db |-> UpdateCard(d, fr.id, fr.input, CURRENT_TIMESTAMP(t)), fr |-> nx]
              ELSE same([fr EXCEPT !.ret = Some(Err("card not found"))])
         [] st.s = "DeletePhones" -> [db |-> DeletePhones(d, fr.id), fr |-> nx]
         [] st.s = "DeleteEmails" -> [db |-> DeleteEmails(d, fr.id), fr |-> nx]
         [] st.s = "DeleteAddresses" -> [db |-> DeleteAddresses(d, fr.id), fr |-> nx]
         [] st.s = "DeleteCardTags" -> [db |-> DeleteCardTags(d, fr.id), fr |-> nx]
         [] st.s = "InsertTag" ->
              [db |-> InsertTag(d, fr.input.tags[st.i]), fr |-> nx]
         [] st.s = "SelectTagId" ->
              LET got == SelectTagId(d, fr.input.tags[st.i])
              IN IF got = {} THEN fkfail
                 ELSE same([nx EXCEPT !.tag_id = CHOOSE x \in got : TRUE])
         [] st.s = "InsertCardTag" ->
              IF fk /\ fr.tag_id \in Ids(d.tags)
              THEN [db |-> InsertCardTag(d, fr.id, fr.tag_id), fr |-> nx]
              ELSE fkfail
         [] st.s = "SelectPhotoPath" ->
              LET got == SelectPhotoPath(d, fr.id)
              IN IF fr.op = "delete_card_photo" /\ got = None
                 THEN same([fr EXCEPT !.ret = Some(Ok(None))])
                 ELSE same([nx EXCEPT !.photo_path = got])
         [] st.s = "DeleteCard" ->
              \* if rows_affected == 0 { return Ok(None) }
              IF CardExists(d, fr.id)
              THEN [db |-> DeleteCard(d, fr.id),
                    fr |-> [nx EXCEPT !.ret = Some(Ok(fr.photo_path))]]
              ELSE same([fr EXCEPT !.ret = Some(Ok(None))])
         [] st.s = "UpdatePhotoPath" ->
              \* if updated == 0 { bail!("card not found") }
              IF RowsUpdated(d, fr.id) # 0
              THEN [db |-> UpdatePhotoPath(d, fr.id, fr.path, CURRENT_TIMESTAMP(t)),
                    fr |-> nx]
              ELSE same([fr EXCEPT !.ret = Some(Err("card not found"))])
         [] st.s = "ClearPhotoPath" ->
              [db |-> UpdatePhotoPath(d, fr.id, <<>>, CURRENT_TIMESTAMP(t)), fr |-> nx]
         [] st.s = "SelectCard" ->
              \* let Some(mut card) = card_opt else { return Ok(None) }; in
              \* list_cards the id is then left out and the loop goes on
              LET got == SelectCard(d, cid)
              IN IF got # None THEN same([nx EXCEPT !.card = got])
                 ELSE IF fr.op = "list_cards"
                 THEN same([fr EXCEPT !.pc = @ + Len(fetch_card_by_id_stmts(st.i))])
                 ELSE same([fr EXCEPT !.ret = Some(Ok(None))])
         [] st.s = "SelectPhones" ->
              same([nx EXCEPT !.card = Some([@[1] EXCEPT !.phones = SelectPhones(d, cid)])])
         [] st.s = "SelectEmails" ->
              same([nx EXCEPT !.card = Some([@[1] EXCEPT !.emails = SelectEmails(d, cid)])])
         [] st.s = "SelectAddresses" ->
              same([nx EXCEPT !.card =
                      Some([@[1] EXCEPT !.addresses = SelectAddresses(d, cid)])])
         [] st.s = "SelectTags" ->
              \* Ok(Some(card)); in list_cards: cards.push(card)
              LET card == [fr.card[1] EXCEPT !.tags = SelectTags(d, cid)]
              IN IF fr.op = "list_cards"
                 THEN same([nx EXCEPT !.card = None, !.cards = Append(@, card)])
                 ELSE same([nx EXCEPT !.card = Some(card)])
         [] st.s = "SelectIds" -> same([nx EXCEPT !.ids = ord])
         [] st.s = "SelectTagCounts" ->
              same([nx EXCEPT !.ret = Some(Ok(SelectTagCounts(d)))])
         [] st.s = "SelectOne" ->
              \* c.execute_batch("SELECT 1").is_ok()
              same([nx EXCEPT !.ret = Some(TRUE)])

\* the call returns when no statement is left
Return(fr) ==
    IF fr.ret = None /\ fr.pc > Len(Program(fr))
    THEN [fr EXCEPT !.ret = Some(ReturnValue(fr))]
    ELSE fr

\* A statement and, after the last one, the return
Exec(d, t, fr, ord) ==
    LET r == ExecStmt(d, t, fr, ord)
    IN [db |-> r.db, fr |-> Return(r.fr)]

\* The call run to its return, every statement succeeding
RECURSIVE Run(_, _, _, _)
Run(d, t, fr, ord) ==
    IF fr.ret # None THEN [db |-> d, fr |-> fr]
    ELSE LET r == Exec(d, t, fr, ord) IN Run(r.db, t, r.fr, ord)

\* the row orders a call may see in its SelectIds statement
OrdersOf(d, fr) ==
    IF fr.op = "list_cards" THEN Orders(d, SelectIds(d, fr.q, fr.tag)) ELSE {<<>>}

(***************************************************************************)
(* handlers.rs save_photo: the stored file name                            *)
(***************************************************************************)
\* "png"
Png == <<112, 110, 103>>

\* format!("card_{card_id}_{timestamp}.{ext}"); the two numbers are kept as
\* numbers
new_filename(card_id, timestamp, ext) ==
    <<99, 97, 114, 100, 95, card_id, 95, timestamp, 46>> \o ext

\* "uploads/"
UploadsPrefix == <<117, 112, 108, 111, 97, 100, 115, 47>>

\* format!("uploads/{new_filename}")
photo_path_of(filename) == UploadsPrefix \o filename

(***************************************************************************)
(* store.rs seed_data: the ten sample contacts main.rs inserts at start    *)
(* when --seed is given and the store holds no card.  Text is written as   *)
(* its character codes.                                                    *)
(***************************************************************************)
SeedCards ==
    \* "Tan Wei Ming": "fintech", "client", "investor"
   <<CardInput(
        <<84, 97, 110, 32, 87, 101, 105, 32, 77, 105, 110, 103>>,
        <<67, 69, 79>>,
        <<68, 66, 83, 32, 71, 114, 111, 117, 112, 32, 72, 111, 108, 100,
        105, 110, 103, 115>>,
        <<104, 116, 116, 112, 115, 58, 47, 47, 119, 119, 119, 46, 100, 98,
        115, 46, 99, 111, 109>>,
        <<77, 101, 116, 32, 97, 116, 32, 83, 105, 110, 103, 97, 112, 111,
        114, 101, 32, 70, 105, 110, 116, 101, 99, 104, 32, 70, 101, 115,
        116, 105, 118, 97, 108, 32, 50, 48, 50, 53>>,
        <<CardFormPhoneInput(<<109, 111, 98, 105, 108, 101>>, <<43, 54, 53,
        32, 57, 49, 50, 51, 32, 52, 53, 54, 55>>), CardFormPhoneInput(<<119,
        111, 114, 107>>, <<43, 54, 53, 32, 54, 56, 55, 56, 32, 56, 56, 56,
        56>>)>>,
        <<CardFormEmailInput(<<119, 111, 114, 107>>, <<119, 101, 105, 109,
        105, 110, 103, 46, 116, 97, 110, 64, 100, 98, 115, 46, 99, 111,
        109>>), CardFormEmailInput(<<112, 101, 114, 115, 111, 110, 97,
        108>>, <<119, 109, 46, 116, 97, 110, 64, 103, 109, 97, 105, 108, 46,
        99, 111, 109>>)>>,
        <<CardFormAddressInput(<<111, 102, 102, 105, 99, 101>>, <<49, 50,
        32, 77, 97, 114, 105, 110, 97, 32, 66, 111, 117, 108, 101, 118, 97,
        114, 100, 32, 68, 66, 83, 32, 65, 115, 105, 97, 32, 72, 117, 98, 32,
        50>>, <<83, 105, 110, 103, 97, 112, 111, 114, 101>>, <<83, 105, 110,
        103, 97, 112, 111, 114, 101>>, <<48, 49, 56, 57, 56, 50>>)>>,
        <<<<102, 105, 110, 116, 101, 99, 104>>, <<99, 108, 105, 101, 110,
        116>>, <<105, 110, 118, 101, 115, 116, 111, 114>>>>),
    \* "Priya Krishnamurthy": "fintech", "partner", "colleague"
     CardInput(
        <<80, 114, 105, 121, 97, 32, 75, 114, 105, 115, 104, 110, 97, 109,
        117, 114, 116, 104, 121>>,
        <<86, 80, 32, 69, 110, 103, 105, 110, 101, 101, 114, 105, 110,
        103>>,
        <<71, 114, 97, 98, 32, 72, 111, 108, 100, 105, 110, 103, 115>>,
        <<104, 116, 116, 112, 115, 58, 47, 47, 119, 119, 119, 46, 103, 114,
        97, 98, 46, 99, 111, 109>>,
        <<>>,
        <<CardFormPhoneInput(<<109, 111, 98, 105, 108, 101>>, <<43, 54, 53,
        32, 56, 50, 51, 52, 32, 53, 54, 55, 56>>)>>,
        <<CardFormEmailInput(<<119, 111, 114, 107>>, <<112, 114, 105, 121,
        97, 46, 107, 64, 103, 114, 97, 98, 46, 99, 111, 109>>)>>,
        <<CardFormAddressInput(<<111, 102, 102, 105, 99, 101>>, <<51, 32,
        77, 101, 100, 105, 97, 32, 67, 108, 111, 115, 101, 32, 79, 110, 101,
        45, 78, 111, 114, 116, 104>>, <<83, 105, 110, 103, 97, 112, 111,
        114, 101>>, <<83, 105, 110, 103, 97, 112, 111, 114, 101>>, <<49, 51,
        56, 52, 57, 56>>)>>,
        <<<<102, 105, 110, 116, 101, 99, 104>>, <<112, 97, 114, 116, 110,
        101, 114>>, <<99, 111, 108, 108, 101, 97, 103, 117, 101>>>>),
    \* "Ahmad Fauzi bin Rashid": "government", "investor"
     CardInput(
        <<65, 104, 109, 97, 100, 32, 70, 97, 117, 122, 105, 32, 98, 105,
        110, 32, 82, 97, 115, 104, 105, 100>>,
        <<68, 105, 114, 101, 99, 116, 111, 114, 32, 111, 102, 32, 73, 110,
        118, 101, 115, 116, 109, 101, 110, 116, 115>>,
        <<84, 101, 109, 97, 115, 101, 107, 32, 72, 111, 108, 100, 105, 110,
        103, 115>>,
        <<104, 116, 116, 112, 115, 58, 47, 47, 119, 119, 119, 46, 116, 101,
        109, 97, 115, 101, 107, 46, 99, 111, 109, 46, 115, 103>>,
        <<>>,
        <<CardFormPhoneInput(<<109, 111, 98, 105, 108, 101>>, <<43, 54, 53,
        32, 57, 51, 52, 53, 32, 54, 55, 56, 57>>), CardFormPhoneInput(<<119,
        111, 114, 107>>, <<43, 54, 53, 32, 54, 51, 48, 56, 32, 50, 50, 50,
        50>>)>>,
        <<CardFormEmailInput(<<119, 111, 114, 107>>, <<97, 104, 109, 97,
        100, 46, 102, 97, 117, 122, 105, 64, 116, 101, 109, 97, 115, 101,
        107, 46, 99, 111, 109, 46, 115, 103>>)>>,
        <<CardFormAddressInput(<<111, 102, 102, 105, 99, 101>>, <<54, 48,
        66, 32, 79, 114, 99, 104, 97, 114, 100, 32, 82, 111, 97, 100, 32,
        84, 111, 119, 101, 114, 32, 50>>, <<83, 105, 110, 103, 97, 112, 111,
        114, 101>>, <<83, 105, 110, 103, 97, 112, 111, 114, 101>>, <<50, 51,
        56, 56, 57, 49>>)>>,
        <<<<103, 111, 118, 101, 114, 110, 109, 101, 110, 116>>, <<105, 110,
        118, 101, 115, 116, 111, 114>>>>),
    \* "Li Mei Chen": "fintech", "colleague"
     CardInput(
        <<76, 105, 32, 77, 101, 105, 32, 67, 104, 101, 110>>,
        <<67, 84, 79>>,
        <<83, 101, 97, 32, 76, 105, 109, 105, 116, 101, 100>>,
        <<104, 116, 116, 112, 115, 58, 47, 47, 119, 119, 119, 46, 115, 101,
        97, 46, 99, 111, 109>>,
        <<>>,
        <<CardFormPhoneInput(<<109, 111, 98, 105, 108, 101>>, <<43, 54, 53,
        32, 56, 52, 53, 54, 32, 55, 56, 57, 48>>)>>,
        <<CardFormEmailInput(<<119, 111, 114, 107>>, <<109, 101, 105, 99,
        104, 101, 110, 64, 115, 101, 97, 46, 99, 111, 109>>),
        CardFormEmailInput(<<112, 101, 114, 115, 111, 110, 97, 108>>, <<108,
        105, 109, 101, 105, 99, 104, 101, 110, 64, 104, 111, 116, 109, 97,
        105, 108, 46, 99, 111, 109>>)>>,
        <<>>,
        <<<<102, 105, 110, 116, 101, 99, 104>>, <<99, 111, 108, 108, 101,
        97, 103, 117, 101>>>>),
    \* "Rajesh Kumar s/o Subramaniam": "partner", "vendor"
     CardInput(
        <<82, 97, 106, 101, 115, 104, 32, 75, 117, 109, 97, 114, 32, 115,
        47, 111, 32, 83, 117, 98, 114, 97, 109, 97, 110, 105, 97, 109>>,
        <<80, 114, 105, 110, 99, 105, 112, 97, 108, 32, 67, 111, 110, 115,
        117, 108, 116, 97, 110, 116>>,
        <<77, 99, 75, 105, 110, 115, 101, 121, 32, 38, 32, 67, 111, 109,
        112, 97, 110, 121>>,
        <<104, 116, 116, 112, 115, 58, 47, 47, 119, 119, 119, 46, 109, 99,
        107, 105, 110, 115, 101, 121, 46, 99, 111, 109>>,
        <<>>,
        <<CardFormPhoneInput(<<109, 111, 98, 105, 108, 101>>, <<43, 54, 48,
        32, 49, 50, 45, 51, 52, 53, 32, 54, 55, 56, 57>>),
        CardFormPhoneInput(<<119, 111, 114, 107>>, <<43, 54, 48, 32, 51, 45,
        50, 51, 48, 50, 32, 49, 48, 48, 48>>)>>,
        <<CardFormEmailInput(<<119, 111, 114, 107>>, <<114, 97, 106, 101,
        115, 104, 46, 107, 117, 109, 97, 114, 64, 109, 99, 107, 105, 110,
        115, 101, 121, 46, 99, 111, 109>>)>>,
        <<CardFormAddressInput(<<111, 102, 102, 105, 99, 101>>, <<76, 101,
        118, 101, 108, 32, 51, 52, 32, 77, 101, 110, 97, 114, 97, 32, 67,
        105, 116, 105, 98, 97, 110, 107, 32, 49, 54, 53, 32, 74, 97, 108,
        97, 110, 32, 65, 109, 112, 97, 110, 103>>, <<75, 117, 97, 108, 97,
        32, 76, 117, 109, 112, 117, 114>>, <<77, 97, 108, 97, 121, 115, 105,
        97>>, <<53, 48, 52, 53, 48>>)>>,
        <<<<112, 97, 114, 116, 110, 101, 114>>, <<118, 101, 110, 100, 111,
        114>>>>),
    \* "Siti Nurbaya Haji Mohamad": "government", "client"
     CardInput(
        <<83, 105, 116, 105, 32, 78, 117, 114, 98, 97, 121, 97, 32, 72, 97,
        106, 105, 32, 77, 111, 104, 97, 109, 97, 100>>,
        <<83, 101, 110, 105, 111, 114, 32, 68, 105, 114, 101, 99, 116, 111,
        114>>,
        <<71, 111, 118, 84, 101, 99, 104, 32, 83, 105, 110, 103, 97, 112,
        111, 114, 101>>,
        <<104, 116, 116, 112, 115, 58, 47, 47, 119, 119, 119, 46, 116, 101,
        99, 104, 46, 103, 111, 118, 46, 115, 103>>,
        <<>>,
        <<CardFormPhoneInput(<<109, 111, 98, 105, 108, 101>>, <<43, 54, 53,
        32, 57, 53, 54, 55, 32, 56, 57, 48, 49>>)>>,
        <<CardFormEmailInput(<<119, 111, 114, 107>>, <<115, 105, 116, 105,
        95, 110, 117, 114, 98, 97, 121, 97, 64, 116, 101, 99, 104, 46, 103,
        111, 118, 46, 115, 103>>)>>,
        <<>>,
        <<<<103, 111, 118, 101, 114, 110, 109, 101, 110, 116>>, <<99, 108,
        105, 101, 110, 116>>>>),
    \* "Kevin Tan Kiat Seng": "fintech", "investor", "client"
     CardInput(
        <<75, 101, 118, 105, 110, 32, 84, 97, 110, 32, 75, 105, 97, 116, 32,
        83, 101, 110, 103>>,
        <<70, 111, 117, 110, 100, 101, 114, 32, 38, 32, 67, 69, 79>>,
        <<80, 97, 121, 83, 71, 32, 84, 101, 99, 104, 110, 111, 108, 111,
        103, 105, 101, 115>>,
        <<104, 116, 116, 112, 115, 58, 47, 47, 112, 97, 121, 115, 103, 46,
        105, 111>>,
        <<>>,
        <<CardFormPhoneInput(<<109, 111, 98, 105, 108, 101>>, <<43, 54, 53,
        32, 57, 54, 55, 56, 32, 57, 48, 49, 50>>)>>,
        <<CardFormEmailInput(<<119, 111, 114, 107>>, <<107, 101, 118, 105,
        110, 64, 112, 97, 121, 115, 103, 46, 105, 111>>),
        CardFormEmailInput(<<112, 101, 114, 115, 111, 110, 97, 108>>, <<107,
        101, 118, 105, 110, 116, 107, 115, 64, 103, 109, 97, 105, 108, 46,
        99, 111, 109>>)>>,
        <<CardFormAddressInput(<<111, 102, 102, 105, 99, 101>>, <<55, 49,
        32, 65, 121, 101, 114, 32, 82, 97, 106, 97, 104, 32, 67, 114, 101,
        115, 99, 101, 110, 116, 32, 74, 84, 67, 32, 76, 97, 117, 110, 99,
        104, 80, 97, 100>>, <<83, 105, 110, 103, 97, 112, 111, 114, 101>>,
        <<83, 105, 110, 103, 97, 112, 111, 114, 101>>, <<49, 51, 57, 57, 53,
        50>>)>>,
        <<<<102, 105, 110, 116, 101, 99, 104>>, <<105, 110, 118, 101, 115,
        116, 111, 114>>, <<99, 108, 105, 101, 110, 116>>>>),
    \* "Siti Rahimah Binti Abdullah": "fintech", "partner"
     CardInput(
        <<83, 105, 116, 105, 32, 82, 97, 104, 105, 109, 97, 104, 32, 66,
        105, 110, 116, 105, 32, 65, 98, 100, 117, 108, 108, 97, 104>>,
        <<82, 101, 103, 105, 111, 110, 97, 108, 32, 68, 105, 114, 101, 99,
        116, 111, 114>>,
        <<80, 114, 117, 100, 101, 110, 116, 105, 97, 108, 32, 112, 108,
        99>>,
        <<104, 116, 116, 112, 115, 58, 47, 47, 119, 119, 119, 46, 112, 114,
        117, 100, 101, 110, 116, 105, 97, 108, 46, 99, 111, 46, 105, 100>>,
        <<>>,
        <<CardFormPhoneInput(<<109, 111, 98, 105, 108, 101>>, <<43, 54, 50,
        32, 56, 49, 50, 45, 51, 52, 53, 54, 45, 55, 56, 57, 48>>),
        CardFormPhoneInput(<<119, 111, 114, 107>>, <<43, 54, 50, 32, 50, 49,
        45, 53, 55, 57, 57, 45, 56, 52, 48, 48>>)>>,
        <<CardFormEmailInput(<<119, 111, 114, 107>>, <<115, 105, 116, 105,
        46, 114, 97, 104, 105, 109, 97, 104, 64, 112, 114, 117, 100, 101,
        110, 116, 105, 97, 108, 46, 99, 111, 46, 105, 100>>)>>,
        <<CardFormAddressInput(<<111, 102, 102, 105, 99, 101>>, <<80, 114,
        117, 100, 101, 110, 116, 105, 97, 108, 32, 84, 111, 119, 101, 114,
        32, 55, 32, 74, 97, 108, 97, 110, 32, 74, 101, 110, 100, 101, 114,
        97, 108, 32, 83, 117, 100, 105, 114, 109, 97, 110>>, <<74, 97, 107,
        97, 114, 116, 97>>, <<73, 110, 100, 111, 110, 101, 115, 105, 97>>,
        <<49, 48, 50, 50, 48>>)>>,
        <<<<102, 105, 110, 116, 101, 99, 104>>, <<112, 97, 114, 116, 110,
        101, 114>>>>),
    \* "James Wong Wei Jian": "colleague"
     CardInput(
        <<74, 97, 109, 101, 115, 32, 87, 111, 110, 103, 32, 87, 101, 105,
        32, 74, 105, 97, 110>>,
        <<72, 101, 97, 100, 32, 111, 102, 32, 69, 110, 103, 105, 110, 101,
        101, 114, 105, 110, 103>>,
        <<83, 104, 111, 112, 101, 101, 32, 47, 32, 83, 101, 97, 32, 71, 114,
        111, 117, 112>>,
        <<104, 116, 116, 112, 115, 58, 47, 47, 115, 104, 111, 112, 101, 101,
        46, 115, 103>>,
        <<>>,
        <<CardFormPhoneInput(<<109, 111, 98, 105, 108, 101>>, <<43, 54, 53,
        32, 57, 55, 56, 57, 32, 48, 49, 50, 51>>)>>,
        <<CardFormEmailInput(<<119, 111, 114, 107>>, <<106, 97, 109, 101,
        115, 119, 111, 110, 103, 64, 115, 104, 111, 112, 101, 101, 46, 99,
        111, 109>>), CardFormEmailInput(<<112, 101, 114, 115, 111, 110, 97,
        108>>, <<106, 97, 109, 101, 115, 46, 119, 111, 110, 103, 119, 106,
        64, 103, 109, 97, 105, 108, 46, 99, 111, 109>>)>>,
        <<>>,
        <<<<99, 111, 108, 108, 101, 97, 103, 117, 101>>>>),
    \* "Anika Sharma": "colleague", "vendor"
     CardInput(
        <<65, 110, 105, 107, 97, 32, 83, 104, 97, 114, 109, 97>>,
        <<83, 101, 110, 105, 111, 114, 32, 80, 114, 111, 100, 117, 99, 116,
        32, 77, 97, 110, 97, 103, 101, 114>>,
        <<65, 103, 111, 100, 97, 32, 67, 111, 109, 112, 97, 110, 121>>,
        <<104, 116, 116, 112, 115, 58, 47, 47, 119, 119, 119, 46, 97, 103,
        111, 100, 97, 46, 99, 111, 109>>,
        <<>>,
        <<CardFormPhoneInput(<<109, 111, 98, 105, 108, 101>>, <<43, 54, 54,
        32, 56, 57, 45, 49, 50, 51, 45, 52, 53, 54, 55>>)>>,
        <<CardFormEmailInput(<<119, 111, 114, 107>>, <<97, 110, 105, 107,
        97, 46, 115, 104, 97, 114, 109, 97, 64, 97, 103, 111, 100, 97, 46,
        99, 111, 109>>)>>,
        <<CardFormAddressInput(<<111, 102, 102, 105, 99, 101>>, <<51, 48,
        116, 104, 32, 70, 108, 111, 111, 114, 32, 84, 104, 101, 32, 79, 102,
        102, 105, 99, 101, 115, 32, 97, 116, 32, 67, 101, 110, 116, 114, 97,
        108, 87, 111, 114, 108, 100, 32, 82, 97, 116, 99, 104, 97, 100, 97,
        109, 114, 105, 32, 82, 111, 97, 100>>, <<66, 97, 110, 103, 107, 111,
        107>>, <<84, 104, 97, 105, 108, 97, 110, 100>>, <<49, 48, 51, 51,
        48>>)>>,
        <<<<99, 111, 108, 108, 101, 97, 103, 117, 101>>, <<118, 101, 110,
        100, 111, 114>>>>)>>

\* is_empty: SELECT COUNT(*) FROM cards, .unwrap_or(0), == 0.  A query that
\* fails counts as 0 cards.
is_empty(d, failed) ==
    (IF failed THEN 0 ELSE Cardinality(d.cards)) = 0

\* The loops of seed_data run until a statement fails: k is the number of
\* statements of the loop that succeed.
\* for (label, number) in &seed.phones { INSERT INTO card_phones ... }
RECURSIVE SeedPhones(_, _, _, _, _)
SeedPhones(d, card_id, phones, i, k) ==
    IF i > Len(phones) \/ i > k THEN d
    ELSE SeedPhones(InsertPhone(d, card_id, phones[i]), card_id, phones, i + 1, k)

\* for (label, address) in &seed.emails { INSERT INTO card_emails ... }
RECURSIVE SeedEmails(_, _, _, _, _)
SeedEmails(d, card_id, emails, i, k) ==
    IF i > Len(emails) \/ i > k THEN d
    ELSE SeedEmails(InsertEmail(d, card_id, emails[i]), card_id, emails, i + 1, k)

\* for (label, street, ...) in &seed.addresses { INSERT INTO card_addresses ... }
RECURSIVE SeedAddresses(_, _, _, _, _)
SeedAddresses(d, card_id, addresses, i, k) ==
    IF i > Len(addresses) \/ i > k THEN d
    ELSE SeedAddresses(InsertAddress(d, card_id, addresses[i]), card_id, addresses,
                       i + 1, k)

\* for tag in &seed.tags { INSERT OR IGNORE INTO tags; SELECT id; INSERT OR
\* IGNORE INTO card_tags }: no name is skipped and no link is removed first
RECURSIVE SeedTags(_, _, _, _, _)
SeedTags(d, card_id, tags, i, k) ==
    IF i > Len(tags) \/ k <= 0 THEN d
    ELSE LET d1 == InsertTag(d, tags[i])
             tag_id == CHOOSE x \in SelectTagId(d1, tags[i]) : TRUE
         IN IF k < 3 THEN d1
            ELSE SeedTags(InsertCardTag(d1, card_id, tag_id), card_id, tags,
                          i + 1, k - 3)

\* the number of statements seed_data runs for one seed card
SeedLen(seed) ==
    1 + Len(seed.phones) + Len(seed.emails) + Len(seed.addresses)
      + 3 * Len(seed.tags)

\* the number of statements seed_data runs for the seed cards from the i-th on
RECURSIVE SeedLenFrom(_)
SeedLenFrom(i) ==
    IF i > Len(SeedCards) THEN 0 ELSE SeedLen(SeedCards[i]) + SeedLenFrom(i + 1)

\* The body of "for seed in &seeds": INSERT INTO cards, whose created_at and
\* updated_at default to CURRENT_TIMESTAMP (t is the clock at the INSERT);
\* card_id = last_insert_rowid(); then the phones, emails, addresses and
\* tags of the seed.  The first k statements succeed.
seed_card(d, seed, t, k) ==
    IF k <= 0 THEN d
    ELSE LET d1 == InsertCard(d, seed, CURRENT_TIMESTAMP(t))
             card_id == d1.seq.cards
             kp == k - 1
             ke == kp - Len(seed.phones)
             ka == ke - Len(seed.emails)
             kt == ka - Len(seed.addresses)
         IN SeedTags(SeedAddresses(SeedEmails(SeedPhones(
                        d1, card_id, seed.phones, 1, kp),
                        card_id, seed.emails, 1, ke),
                        card_id, seed.addresses, 1, ka),
                     card_id, seed.tags, 1, kt)

\* for seed in &seeds { ... }: the seed cards from the i-th on, each iteration
\* starting from the store the one before it left
RECURSIVE SeedFrom(_, _, _, _)
SeedFrom(d, clock, i, k) ==
    IF i > Len(SeedCards) \/ k <= 0 THEN d
    ELSE CHOOSE r \in {SeedFrom(d1, clock, i + 1, k - SeedLen(SeedCards[i])) :
                          d1 \in {seed_card(d, SeedCards[i], clock[i], k)}} : TRUE

\* seed_data(conn) on the store d: clock[i] is the reading of the host clock
\* at the INSERT of the i-th seed card; the first k statements succeed and,
\* when k is less than SeedLenFrom(1), the next one fails and `?` returns
\* its error from seed_data and from main: the server does not start, the
\* rows inserted so far stay.
seed_data(d, clock, k) == SeedFrom(d, clock, 1, k)

(***************************************************************************)
(* Spec: the repository API called by one caller at a time.  Every call    *)
(* runs to its return with the connection lock held and no statement       *)
(* failing.                                                                *)
(***************************************************************************)
CardIds == 1..MaxCards

NoCall == Frame("none", 0, NoInput, <<>>, None, None)

\* the inserts of a call stay within the bounds of the model
WithinBounds(d, fr) ==
    IF fr.op \in {"create_card", "update_card"}
    THEN /\ fr.op = "create_card" => d.seq.cards < MaxCards
         /\ d.seq.card_phones + Len(fr.input.phones) <= MaxRows
         /\ d.seq.card_emails + Len(fr.input.emails) <= MaxRows
         /\ d.seq.card_addresses + Len(fr.input.addresses) <= MaxRows
    ELSE TRUE

Init ==
    /\ db = init_db
    /\ now = 0
    /\ last = NoCall
    /\ lock = 0
    /\ procs = <<>>
    /\ files = {}
    /\ faults = 0
    /\ arrived = 0

\* the store after create_card(InputB) on a new file, and after delete_card
\* of that card: files an earlier run of the server has left
Holding ==
    Run(init_db, 0, Frame("create_card", 0, InputB, <<>>, None, None), <<>>).db

Emptied ==
    Run(Holding, 0, Frame("delete_card", 1, NoInput, <<>>, None, None), <<>>).db

\* the clock during seed_data: it stands still at reading t
Still(t) == [i \in 1..Len(SeedCards) |-> t]

\* the clock during seed_data: it shows the next second from the j-th INSERT
\* INTO cards on
Passing(j) == [i \in 1..Len(SeedCards) |-> IF i < j THEN 0 ELSE 1000]

\* The runs of main with --seed that are told apart: on a new file; on a new
\* file while the clock passes a second; on the file of an earlier run whose
\* cards were all deleted; on a file that holds a card when the COUNT query
\* of is_empty fails.
SeedRuns ==
    {[file |-> init_db, failed |-> FALSE, clock |-> Still(0)],
     [file |-> init_db, failed |-> FALSE, clock |-> Passing(8)],
     [file |-> Emptied, failed |-> FALSE, clock |-> Still(0)],
     [file |-> Holding, failed |-> TRUE, clock |-> Still(0)]}

\* the statements after which a seed_data that fails has failed: after the
\* first phone of the first seed card, and after the row of the third
SeedStops == {2, SeedLen(SeedCards[1]) + SeedLen(SeedCards[2]) + 1}

\* main with --seed: if cli.seed && store::is_empty(&conn) { seed_data }, every
\* statement of seed_data succeeding
InitSeed ==
    /\ \E run \in SeedRuns :
          /\ is_empty(run.file, run.failed)
          /\ db = seed_data(run.file, run.clock, SeedLenFrom(1))
          /\ now = run.clock[Len(SeedCards)]
    /\ last = NoCall
    /\ lock = 0
    /\ procs = <<>>
    /\ files = {}
    /\ faults = 0
    /\ arrived = 0

\* main after a main with --seed whose seed_data failed: the file holds the
\* cards inserted before the failure, is_empty is false and the server
\* starts on the file as it is
InitSeedFailed ==
    /\ \E k \in SeedStops :
          /\ k < SeedLenFrom(1)
          /\ ~is_empty(seed_data(init_db, Still(0), k), FALSE)
          /\ db = seed_data(init_db, Still(0), k)
    /\ now = 0
    /\ last = NoCall
    /\ lock = 0
    /\ procs = <<>>
    /\ files = {}
    /\ faults = 0
    /\ arrived = 0

\* one repository call, from lock to return
Call(fr) ==
    /\ WithinBounds(db, fr)
    /\ \E ord \in OrdersOf(db, fr) :
          LET r == Run(db, now, fr, ord)
          IN /\ db' = r.db
             /\ last' = r.fr
    /\ UNCHANGED <<now, lock, procs, files, faults, arrived>>

Create == \E input \in Inputs : Call(Frame("create_card", 0, input, <<>>, None, None))

Get == \E id \in CardIds : Call(Frame("get_card", id, NoInput, <<>>, None, None))

List ==
    \E q \in {None} \cup {Some(x) : x \in Queries} :
    \E tag \in {None} \cup {Some(x) : x \in TagFilters} :
        Call(Frame("list_cards", 0, NoInput, <<>>, q, tag))

Update ==
    \E id \in CardIds : \E input \in Inputs :
        Call(Frame("update_card", id, input, <<>>, None, None))

Delete == \E id \in CardIds : Call(Frame("delete_card", id, NoInput, <<>>, None, None))

UpdatePhoto ==
    \E id \in CardIds :
        Call(Frame("update_card_photo", id, NoInput,
                   photo_path_of(new_filename(id, now, Png)), None, None))

ClearPhoto ==
    \E id \in CardIds : Call(Frame("delete_card_photo", id, NoInput, <<>>, None, None))

ListTags == Call(Frame("list_tags", 0, NoInput, <<>>, None, None))

\* the host clock shows another second, later or earlier (the store reads
\* the clock to the second)
Tick ==
    /\ \E t \in Seconds : t # now /\ now' = t
    /\ last' = NoCall
    /\ UNCHANGED <<db, lock, procs, files, faults, arrived>>

Next ==
    \/ Create \/ Get \/ Update \/ Delete
    \/ UpdatePhoto \/ ClearPhoto \/ ListTags \/ Tick

\* the server starts on a new file or, with --seed, on the sample contacts
Spec == (Init \/ InitSeed \/ InitSeedFailed) /\ [][Next]_vars

\* SpecList: the same store under the same writes, read by list(q, tag)
NextList ==
    \/ Create \/ Update \/ Delete \/ Tick
    \/ List

SpecList == Init /\ [][NextList]_vars

(***************************************************************************)
(* The connection mutex and the statement-by-statement execution of the    *)
(* store functions.  A caller is idle, waiting in conn.lock(), running its *)
(* statements with the guard held, or done (the function has returned and  *)
(* the guard is dropped).                                                  *)
(***************************************************************************)
Caller(st, fr) == [st |-> st, fr |-> fr]

\* a Mutex that lets every caller in
MutexOpen(l) == TRUE

\* Mutex::lock returns when no other guard is alive
MutexFree(l) == l = 0

\* the calls a caller may dispatch
Calls ==
    {Frame("create_card", 0, input, <<>>, None, None) : input \in Inputs}
    \cup {Frame("update_card", id, input, <<>>, None, None) :
            id \in CardIds, input \in Inputs}
    \cup {Frame("delete_card", id, NoInput, <<>>, None, None) : id \in CardIds}
    \cup {Frame("get_card", id, NoInput, <<>>, None, None) : id \in CardIds}
    \cup {Frame("update_card_photo", id, NoInput,
                photo_path_of(new_filename(id, 0, Png)), None, None) : id \in CardIds}
    \cup {Frame("delete_card_photo", id, NoInput, <<>>, None, None) : id \in CardIds}
    \cup {Frame("list_cards", 0, NoInput, <<>>, None, None),
          Frame("list_tags", 0, NoInput, <<>>, None, None)}

\* the calls of two concurrent callers: one card id, two inputs
\* the calls on the cards' rows and children with the inputs InputA and InputC
FailCalls ==
    {fr \in Calls : /\ fr.op \notin {"update_card_photo", "delete_card_photo"}
                    /\ fr.input \in {NoInput, InputA, InputC}}

LockCalls == {fr \in FailCalls : fr.id \in {0, 1}}

\* spawn_blocking(move || store::f(&conn, ...)): the call is dispatched
Dispatch(p, calls) ==
    /\ procs[p].st = "idle"
    /\ \E fr \in calls :
          /\ WithinBounds(db, fr)
          /\ procs' = [procs EXCEPT ![p] = Caller("waiting", fr)]
    /\ UNCHANGED <<db, now, last, lock, files, faults, arrived>>

\* let conn = conn.lock().unwrap()
Acquire(p) ==
    /\ procs[p].st = "waiting"
    /\ MutexFree(lock)
    /\ WithinBounds(db, procs[p].fr)
    /\ lock' = p
    /\ procs' = [procs EXCEPT ![p].st = "running"]
    /\ UNCHANGED <<db, now, last, files, faults, arrived>>

\* the next statement of the call; with its return the guard is dropped
Step(p) ==
    /\ procs[p].st = "running"
    /\ \E ord \in OrdersOf(db, procs[p].fr) :
          LET r == Exec(db, now, procs[p].fr, ord)
          IN /\ db' = r.db
             /\ procs' = [procs EXCEPT ![p] =
                   Caller(IF r.fr.ret = None THEN "running" ELSE "done", r.fr)]
             /\ lock' = IF r.fr.ret = None THEN lock ELSE 0
    /\ UNCHANGED <<now, last, files, faults, arrived>>

\* The frame after its next statement has failed: `?` makes the call return
\* the error, and health answers is_ok().  The card row read of
\* fetch_card_by_id is the exception: an error of its prepare returns through
\* `?`, an error of its query_row is swallowed by .ok() and read as "no such
\* card", so that get_card returns Ok(None) and list_cards leaves the id out
\* and goes on with the next one.
FailStmt(fr, swallowed) ==
    IF Program(fr)[fr.pc].s = "SelectCard" /\ swallowed
    THEN IF fr.op = "list_cards"
         THEN Return([fr EXCEPT
                 !.pc = @ + Len(fetch_card_by_id_stmts(Program(fr)[fr.pc].i))])
         ELSE [fr EXCEPT !.ret = Some(Ok(None))]
    ELSE IF Program(fr)[fr.pc].s = "SelectOne"
    THEN [fr EXCEPT !.ret = Some(FALSE)]
    ELSE [fr EXCEPT !.ret = Some(Err("storage"))]

\* the next statement fails: nothing of it is persisted; the call returns
\* and drops the guard, unless the failure is swallowed and statements are
\* left
Fail(p) ==
    /\ procs[p].st = "running"
    /\ faults < MaxFaults
    /\ faults' = faults + 1
    /\ \E swallowed \in BOOLEAN : \E f \in {FailStmt(procs[p].fr, swallowed)} :
          /\ procs' = [procs EXCEPT ![p] =
                Caller(IF f.ret = None THEN "running" ELSE "done", f)]
          /\ lock' = IF f.ret = None THEN lock ELSE 0
    /\ UNCHANGED <<db, now, last, files, arrived>>

\* the caller takes the result
Collect(p) ==
    /\ procs[p].st = "done"
    /\ procs' = [procs EXCEPT ![p] = Caller("idle", NoCall)]
    /\ UNCHANGED <<db, now, last, lock, files, faults, arrived>>

\* the host clock shows another reading, later or earlier
TickClock(readings) ==
    /\ \E t \in readings : t # now /\ now' = t
    /\ UNCHANGED <<db, last, lock, procs, files, faults, arrived>>

(***************************************************************************)
(* SpecFail: one caller, any statement may fail                            *)
(***************************************************************************)
InitFail ==
    /\ db = init_db
    /\ now = 0
    /\ last = NoCall
    /\ lock = 0
    /\ procs = [p \in {1} |-> Caller("idle", NoCall)]
    /\ files = {}
    /\ faults = 0
    /\ arrived = 0

NextFail ==
    \/ \E p \in DOMAIN procs :
          Dispatch(p, FailCalls) \/ Acquire(p) \/ Step(p) \/ Fail(p) \/ Collect(p)
    \/ Tick

SpecFail == InitFail /\ [][NextFail]_vars

(***************************************************************************)
(* SpecLock: two concurrent callers, no statement fails                    *)
(***************************************************************************)
InitLock ==
    /\ db = init_db
    /\ now = 0
    /\ last = NoCall
    /\ lock = 0
    /\ procs = [p \in {1, 2} |-> Caller("idle", NoCall)]
    /\ files = {}
    /\ faults = 0
    /\ arrived = 0

NextLock ==
    \/ \E p \in DOMAIN procs :
          Dispatch(p, LockCalls) \/ Acquire(p) \/ Step(p) \/ Collect(p)
    \/ Tick

SpecLock == InitLock /\ [][NextLock]_vars

(***************************************************************************)
(* handlers.rs: the request handlers.  Each store call of a handler is one *)
(* step (spawn_blocking(...).await: the call runs under the lock to its    *)
(* return); each filesystem call is one step.                              *)
(***************************************************************************)
\* 5 * 1024 * 1024
MaxPhotoBytes == 5242880

\* the request body a Multipart extractor reads at most: the router sets no
\* other limit than the default one of 2 MB
DefaultBodyLimit == 2097152

\* the part of s after its last c, or s when c does not occur
RECURSIVE AfterLast(_, _)
AfterLast(s, c) ==
    IF \A i \in 1..Len(s) : s[i] # c THEN s
    ELSE AfterLast(Tail(s), c)

\* the parts of s between its '/' characters
RECURSIVE SplitSlash(_)
SplitSlash(s) ==
    IF \A i \in 1..Len(s) : s[i] # 47 THEN <<s>>
    ELSE LET i == CHOOSE k \in 1..Len(s) :
                     s[k] = 47 /\ \A j \in 1..(k - 1) : s[j] # 47
         IN <<SubSeq(s, 1, i - 1)>> \o SplitSlash(SubSeq(s, i + 1, Len(s)))

\* a component of a path that names something: not empty and not "."
IsNormal(c) == c # <<>> /\ c # <<46>>

\* Path::file_name: the last component of the path ("x.png" for "x.png/" and
\* for "x.png/."), None when the path has no component or ends in ".."
file_name(s) ==
    LET parts == SelectSeq(SplitSlash(s), IsNormal)
    IN IF parts = <<>> \/ parts[Len(parts)] = <<46, 46>> THEN None
       ELSE Some(parts[Len(parts)])

\* Path::new(filename).extension(), lowercased; "" when there is none: the
\* part of the file name after its last '.', a leading '.' not counted
extension(filename) ==
    LET name == file_name(filename)
    IN IF name = None THEN <<>>
       ELSE IF \A i \in 2..Len(name[1]) : name[1][i] # 46 THEN <<>>
       ELSE LET e == AfterLast(name[1], 46)
            IN [i \in 1..Len(e) |-> to_lowercase(e[i])]

\* matches!(ext, "jpg" | "jpeg" | "png" | "webp")
AllowedExt(ext) ==
    ext \in {<<106, 112, 103>>, <<106, 112, 101, 103>>, <<112, 110, 103>>,
             <<119, 101, 98, 112>>}

\* photo_path.trim_start_matches("uploads/")
RECURSIVE trim_start_matches(_, _)
trim_start_matches(s, prefix) ==
    IF Len(s) >= Len(prefix) /\ SubSeq(s, 1, Len(prefix)) = prefix
    THEN trim_start_matches(SubSeq(s, Len(prefix) + 1, Len(s)), prefix)
    ELSE s

\* a cleanup that removes nothing
remove_file_never(fs, photo_path, io) == fs

\* remove_file_if_exists: the files left; the result of fs::remove_file is
\* dropped
remove_file_if_exists(fs, photo_path, io) ==
    IF photo_path = <<>> THEN fs
    ELSE IF io = "ok" THEN fs \ {trim_start_matches(photo_path, UploadsPrefix)}
    ELSE fs

\* the bytes of the boundaries, part headers and text fields of a form
FormFraming == 256

\* the multipart form of a request: the name field (absent or a text), the
\* other fields as a CardInput, the photo parts (original file name and
\* number of bytes): the last one, if any, and those before it; the bytes
\* outside the photo parts; and the read that fails, if any, because of the
\* connection or of the encoding of the body
Form(name, input, photo) ==
    [name |-> name, input |-> input, photo |-> photo, earlier |-> <<>>,
     framing |-> FormFraming, unread |-> None]

Photo(filename, len) == [filename |-> filename, len |-> len]

NoForm == Form(None, NoInput, None)

\* the form with photo parts before its photo
After(parts, form) == [form EXCEPT !.earlier = parts]

\* the form whose read fails with err
Unread(form, err) == [form EXCEPT !.unread = Some(err)]

\* the photo parts of a form in the order of the body
PhotoParts(form) ==
    form.earlier \o (IF form.photo = None THEN <<>> ELSE <<form.photo[1]>>)

\* collect_multipart without the size checks
collect_multipart_unlimited(form) == Ok(form)

\* the loop of collect_multipart over the photo parts, `read` bytes of the
\* body read so far: field.bytes() fails when the read fails or the body
\* passes the limit of the extractor; then the size guard
RECURSIVE CollectPhotos(_, _, _)
CollectPhotos(form, parts, read) ==
    IF parts = <<>> THEN Ok(form)
    ELSE IF \/ form.unread = Some("read photo error")
            \/ read + Head(parts).len > DefaultBodyLimit
    THEN Err("read photo error")
    ELSE IF Head(parts).len > MaxPhotoBytes THEN Err("photo exceeds 5MB limit")
    ELSE CollectPhotos(form, Tail(parts), read + Head(parts).len)

\* collect_multipart: Err when next_field, field.text or field.bytes fails
\* or a photo part exceeds 5 MiB; else the text fields and the last photo
\* part.  The framing is counted before the photo parts: a body over the
\* limit ends in an Err wherever its bytes lie.
collect_multipart(form) ==
    IF form.unread = Some("multipart error") THEN Err("multipart error")
    ELSE IF form.unread = Some("read field error") THEN Err("read field error")
    ELSE CollectPhotos(form, PhotoParts(form), form.framing)

\* parse_card_input: Err when name is absent or blank
parse_card_input(form) ==
    IF form.name = None \/ trim(form.name[1]) = <<>>
    THEN Err("name is required")
    ELSE Ok([form.input EXCEPT !.name = form.name[1]])

\* a response: the status code, whether internal_error logged it, the body
Response(status, logged, body) == [status |-> status, logged |-> logged, body |-> body]

\* internal_error: error!("internal error: ...") and 500
internal_error == Response(500, TRUE, <<>>)

not_found == Response(404, FALSE, <<>>)

bad_request == Response(400, FALSE, <<>>)

\* a request: the handler h, its position pc, its arguments and locals
Request(h, pc, id, form) ==
    [h |-> h, pc |-> pc, id |-> id, form |-> form, input |-> NoInput,
     old_path |-> <<>>, new_filename |-> <<>>, photo_path |-> <<>>,
     resp |-> None]

NoRequest == Request("none", "done", 0, NoForm)

\* the handler returns resp; its locals are dropped
Respond(rq, resp) ==
    [rq EXCEPT !.pc = "done", !.resp = Some(resp), !.input = NoInput,
               !.old_path = <<>>, !.new_filename = <<>>, !.photo_path = <<>>]

\* the positions at which a handler awaits a store call
StorePcs ==
    {"exists", "create_card", "update_card", "delete_card", "delete_card_photo",
     "update_card_photo", "get_card"}

\* the store call a request makes at its position, if any
StoreFrame(rq) ==
    CASE rq.pc = "exists" -> Frame("get_card", rq.id, NoInput, <<>>, None, None)
      [] rq.pc \in {"create_card", "update_card"} ->
           Frame(rq.pc, rq.id, rq.input, <<>>, None, None)
      [] rq.pc = "update_card_photo" ->
           Frame(rq.pc, rq.id, NoInput, rq.photo_path, None, None)
      [] rq.pc \in StorePcs -> Frame(rq.pc, rq.id, NoInput, <<>>, None, None)
      [] OTHER -> Frame("none", 0, NoInput, <<>>, None, None)

\* spawn_blocking(move || store::f(&conn, ...)).await: the call runs under
\* the lock to its return; the database and the frame after it
StoreCall(d, t, fr) ==
    IF fr.op = "none" THEN [db |-> d, fr |-> fr] ELSE Run(d, t, fr, <<>>)

\* save_photo from position pc to its next await point or its return (ret):
\* the extension check, the clock read and the name built from it; then
\* fs::create_dir_all; then fs::write, which leaves the file when it fails
\* after creating it
save_photo(fs, card_id, t, filename, pc, name, io) ==
    LET ext == extension(filename)
        at(next, n, r) == [files |-> fs, pc |-> next, new_filename |-> n, ret |-> r]
    IN CASE pc = "save_photo" ->
              IF ~AllowedExt(ext)
              THEN at(pc, name, Some(Err("only jpg, png, webp photos are allowed")))
              ELSE at("create_dir_all", new_filename(card_id, t, ext), None)
         [] pc = "create_dir_all" ->
              IF io = "ok" THEN at("write", name, None)
              ELSE at(pc, name, Some(Err("create uploads dir")))
         [] pc = "write" ->
              IF io = "ok"
              THEN [at(pc, name, Some(Ok(photo_path_of(name))))
                       EXCEPT !.files = fs \cup {name}]
              ELSE [at(pc, name, Some(Err("write photo")))
                       EXCEPT !.files = IF io = "partial" THEN fs \cup {name} ELSE fs]

\* a handler that answers a failed removal with an error
AfterRemoveChecked(rq, io) ==
    IF io # "ok" THEN Respond(rq, internal_error)
    ELSE IF rq.h \in {"delete_card", "delete_photo"}
    THEN Respond(rq, Response(204, FALSE, <<>>))
    ELSE [rq EXCEPT !.pc = "save_photo"]

\* the handler after remove_file_if_exists(..).await, which returns ()
AfterRemove(rq, io) ==
    IF rq.h \in {"delete_card", "delete_photo"}
    THEN Respond(rq, Response(204, FALSE, <<>>))
    ELSE [rq EXCEPT !.pc = "save_photo"]

\* One step of a request: from one await point of its handler to the next.
\* fr is the returned frame of the store call awaited at this position, if
\* any; io is the outcome of the filesystem call made at this position, if
\* any.  Gives the files and the request after the step.
HandlerStep(fs, t, rq, fr, io) ==
    LET ret == fr.ret[1]
        same(r) == [files |-> fs, rq |-> r]
        goto(pc) == [rq EXCEPT !.pc = pc]
    IN CASE rq.pc = "exists" ->
              \* update_card, upload_photo: verify card exists
              IF ~ret.ok THEN same(Respond(rq, internal_error))
              ELSE IF ret.val = None THEN same(Respond(rq, not_found))
              ELSE same(goto("parse"))
         [] rq.pc = "parse" ->
              LET fields == collect_multipart(rq.form)
                  input == parse_card_input(rq.form)
              IN IF ~fields.ok THEN same(Respond(rq, bad_request))
                 ELSE IF rq.h = "upload_photo"
                 THEN IF rq.form.photo = None THEN same(Respond(rq, bad_request))
                      ELSE same(goto("delete_card_photo"))
                 ELSE IF ~input.ok THEN same(Respond(rq, bad_request))
                 ELSE same([rq EXCEPT !.input = input.val,
                                      !.pc = IF rq.h = "create_card" THEN "create_card"
                                             ELSE "update_card"])
         [] rq.pc = "create_card" ->
              IF ~ret.ok THEN same(Respond(rq, internal_error))
              ELSE same([rq EXCEPT !.id = ret.val,
                                   !.pc = IF rq.form.photo = None THEN "get_card"
                                          ELSE "save_photo"])
         [] rq.pc = "update_card" ->
              IF ~ret.ok THEN same(Respond(rq, internal_error))
              ELSE same(goto(IF rq.form.photo = None THEN "get_card"
                             ELSE "delete_card_photo"))
         [] rq.pc = "delete_card" ->
              IF ~ret.ok THEN same(Respond(rq, internal_error))
              ELSE IF ret.val = None THEN same(Respond(rq, not_found))
              ELSE same([rq EXCEPT !.old_path = ret.val[1], !.pc = "remove_file"])
         [] rq.pc = "delete_card_photo" ->
              IF rq.h = "delete_photo"
              THEN IF ~ret.ok THEN same(Respond(rq, internal_error))
                   ELSE IF ret.val = None THEN same(Respond(rq, not_found))
                   ELSE same([rq EXCEPT !.old_path = ret.val[1], !.pc = "remove_file"])
              ELSE \* .ok().and_then(|r| r.ok()).flatten().unwrap_or_default()
                   same([rq EXCEPT !.old_path = IF ret.ok /\ ret.val # None
                                                THEN ret.val[1] ELSE <<>>,
                                   !.pc = "remove_file"])
         [] rq.pc = "remove_file" ->
              [files |-> remove_file_if_exists(fs, rq.old_path, io),
               rq |-> AfterRemove(rq, io)]
         [] rq.pc \in {"save_photo", "create_dir_all", "write"} ->
              LET saved == save_photo(fs, rq.id, t, rq.form.photo[1].filename,
                                      rq.pc, rq.new_filename, io)
              IN [files |-> saved.files,
                  rq |-> IF saved.ret = None
                         THEN [rq EXCEPT !.pc = saved.pc,
                                         !.new_filename = saved.new_filename]
                         ELSE IF ~saved.ret[1].ok THEN Respond(rq, internal_error)
                         ELSE [rq EXCEPT !.photo_path = saved.ret[1].val,
                                         !.pc = "update_card_photo"]]
         [] rq.pc = "update_card_photo" ->
              IF rq.h = "upload_photo"
              THEN IF ~ret.ok THEN same(Respond(rq, internal_error))
                   ELSE same(Respond(rq, Response(200, FALSE, <<47>> \o rq.photo_path)))
              ELSE \* let _ = ...: the result is dropped
                   same(goto("get_card"))
         [] rq.pc = "get_card" ->
              IF ~ret.ok THEN same(Respond(rq, internal_error))
              ELSE IF ret.val = None
              THEN same(Respond(rq, IF rq.h = "create_card" THEN internal_error
                                    ELSE not_found))
              ELSE same(Respond(rq, Response(IF rq.h = "create_card" THEN 201 ELSE 200,
                                             FALSE, ret.val[1])))

(***************************************************************************)
(* The repository calls as functions of the database                       *)
(***************************************************************************)
\* get_card(conn, id): Ok(None) or Ok(Some(card))
get_card(d, id) ==
    Run(d, 0, Frame("get_card", id, NoInput, <<>>, None, None), <<>>).fr.ret[1]

\* list_tags(conn): Ok(the tag counts)
list_tags(d) ==
    Run(d, 0, Frame("list_tags", 0, NoInput, <<>>, None, None), <<>>).fr.ret[1]

\* list_cards(conn, q, tag): Ok(the hydrated cards), the ids read in order ord
list_cards(d, q, tag, ord) ==
    Run(d, 0, Frame("list_cards", 0, NoInput, <<>>, q, tag), ord).fr.ret[1]

Returned(fr, op) == fr.op = op /\ fr.ret # None /\ fr.ret[1].ok

(***************************************************************************)
(* SpecHandlers: concurrent requests.  Each slot of procs carries one      *)
(* request at a time; the steps of the requests interleave freely, and the *)
(* host clock may show another second between two steps.                   *)
(***************************************************************************)
Slots == {1, 2}

NameA == <<97>>

\* "p.png", 1 byte
PhotoPng == Photo(<<112, 46, 112, 110, 103>>, 1)

\* "v.exe", 1 byte
PhotoExe == Photo(<<118, 46, 101, 120, 101>>, 1)

\* the requests of concurrent clients: create with and without a photo, and
\* on each card update with a photo, upload (allowed and disallowed
\* extension), photo delete and card delete
Requests ==
    {Request("create_card", "parse", 0, Form(Some(NameA), InputC, photo)) :
        photo \in {None, Some(PhotoPng)}}
    \cup {Request("update_card", "exists", id, Form(Some(NameA), InputC, Some(PhotoPng))) :
            id \in CardIds}
    \cup {Request("upload_photo", "exists", id, Form(None, NoInput, Some(photo))) :
            id \in CardIds, photo \in {PhotoPng, PhotoExe}}
    \cup {Request("delete_photo", "delete_card_photo", id, NoForm) : id \in CardIds}
    \cup {Request("delete_card", "delete_card", id, NoForm) : id \in CardIds}

InitHandlers ==
    /\ db = init_db
    /\ now = 0
    /\ last = NoCall
    /\ lock = 0
    /\ procs = [p \in Slots |-> NoRequest]
    /\ files = {}
    /\ faults = 0
    /\ arrived = 0

\* a request arrives and its handler starts
Arrive(p, requests) ==
    /\ procs[p].pc = "done"
    /\ arrived < MaxRequests
    /\ arrived' = arrived + 1
    /\ \E rq \in requests : procs' = [procs EXCEPT ![p] = rq]
    /\ UNCHANGED <<db, now, last, lock, files, faults>>

\* the handler runs to its next await point; a call to the filesystem made
\* there (fs::remove_file of an old path, fs::create_dir_all, fs::write) has
\* one of the outcomes ios: "ok", "err" (failed, nothing done) or, of
\* fs::write, "partial" (failed after the file was created)
Handle(p, ios) ==
    /\ procs[p].pc # "done"
    /\ \E fr \in {StoreFrame(procs[p])} :
          /\ WithinBounds(db, fr)
          /\ \E call \in {StoreCall(db, now, fr)} :
                /\ db' = call.db
                /\ last' = call.fr
    /\ \E io \in ios :
          /\ io # "ok" =>
                /\ faults < MaxFaults
                /\ procs[p].pc \in {"remove_file", "create_dir_all", "write"}
                /\ procs[p].pc = "remove_file" => procs[p].old_path # <<>>
                /\ io = "partial" => procs[p].pc = "write"
          /\ faults' = IF io = "ok" THEN faults ELSE faults + 1
          /\ \E r \in {HandlerStep(files, now, procs[p], last', io)} :
                /\ files' = r.files
                /\ procs' = [procs EXCEPT ![p] = r.rq]
    /\ UNCHANGED <<now, lock, arrived>>

NextHandlers ==
    \/ \E p \in Slots : Arrive(p, Requests) \/ Handle(p, {"ok"})
    \/ TickClock(Seconds)

SpecHandlers == InitHandlers /\ [][NextHandlers]_vars

(***************************************************************************)
(* SpecSeq: one client, one request at a time, each run to its response    *)
(* before the next arrives; valid and invalid forms and photos.            *)
(***************************************************************************)
\* "P.JPG", exactly 5 MiB
PhotoMax == Photo(<<80, 46, 74, 80, 71>>, MaxPhotoBytes)

\* "p.png", 5 MiB and one byte
PhotoBig == Photo(<<112, 46, 112, 110, 103>>, MaxPhotoBytes + 1)

\* "p": no extension
PhotoNoExt == Photo(<<112>>, 1)

\* "P.JPG", 1 byte
PhotoJpg == Photo(<<80, 46, 74, 80, 71>>, 1)

\* "p.png", as many bytes as make the body of a form 2 MB
PhotoFits == Photo(<<112, 46, 112, 110, 103>>, DefaultBodyLimit - FormFraming)

\* "p.png", one byte more
PhotoOver == Photo(<<112, 46, 112, 110, 103>>, DefaultBodyLimit - FormFraming + 1)

\* forms that are not read to their end: a part that does not parse, a text
\* field and a photo part whose read fails, and a body over the limit by a
\* photo part that is not the last one
BrokenForms(form) ==
    {Unread(form, "multipart error"), Unread(form, "read field error"),
     Unread([form EXCEPT !.photo = Some(PhotoPng)], "read photo error"),
     After(<<PhotoOver>>, [form EXCEPT !.photo = Some(PhotoPng)])}

\* the multipart forms of create and update requests: the name field absent,
\* blank or "a"; no photo or one of the photos; forms not read to their end
CardForms(input) ==
    {Form(Some(NameA), input, photo) :
        photo \in {None, Some(PhotoPng), Some(PhotoJpg), Some(PhotoOver),
                   Some(PhotoMax), Some(PhotoBig), Some(PhotoExe)}}
    \cup {Form(None, input, None), Form(Some(<<32>>), input, Some(PhotoPng))}
    \cup BrokenForms(Form(Some(NameA), input, None))

SeqRequests ==
    {Request("create_card", "parse", 0, form) :
        form \in CardForms(InputC) \cup {Form(Some(NameA), InputC, Some(PhotoFits))}}
    \cup {Request("update_card", "exists", id, form) :
            id \in CardIds, form \in CardForms(InputB)}
    \cup {Request("upload_photo", "exists", id, form) :
            id \in CardIds,
            form \in {Form(None, NoInput, photo) :
                        photo \in {None, Some(PhotoPng), Some(PhotoJpg),
                                   Some(PhotoFits), Some(PhotoOver), Some(PhotoMax),
                                   Some(PhotoBig), Some(PhotoExe), Some(PhotoNoExt)}}
                     \cup BrokenForms(NoForm)}
    \cup {Request("delete_photo", "delete_card_photo", id, NoForm) : id \in CardIds}
    \cup {Request("delete_card", "delete_card", id, NoForm) : id \in CardIds}

InitSeq ==
    /\ db = init_db
    /\ now = 0
    /\ last = NoCall
    /\ lock = 0
    /\ procs = [p \in {1} |-> NoRequest]
    /\ files = {}
    /\ faults = 0
    /\ arrived = 0

NextSeq ==
    \/ Arrive(1, SeqRequests)
    \/ Handle(1, {"ok"})
    \/ TickClock(Instants)

SpecSeq == InitSeq /\ [][NextSeq]_vars

(***************************************************************************)
(* SpecSeqFail: one request at a time; a statement of a store call may     *)
(* fail with a storage error.                                              *)
(***************************************************************************)
\* the call run for its first k statements, or to its return if that is
\* earlier
RECURSIVE RunSteps(_, _, _, _)
RunSteps(d, t, fr, k) ==
    IF k = 0 \/ fr.ret # None THEN [db |-> d, fr |-> fr]
    ELSE LET r == Exec(d, t, fr, <<>>) IN RunSteps(r.db, t, r.fr, k - 1)

\* requests with valid forms
FaultRequests ==
    {Request("create_card", "parse", 0, Form(Some(NameA), InputC, photo)) :
        photo \in {None, Some(PhotoPng)}}
    \cup {Request("update_card", "exists", id, Form(Some(NameA), InputB, photo)) :
            id \in CardIds, photo \in {None, Some(PhotoPng)}}
    \cup {Request("upload_photo", "exists", id, Form(None, NoInput, Some(PhotoPng))) :
            id \in CardIds}
    \cup {Request("delete_photo", "delete_card_photo", id, NoForm) : id \in CardIds}
    \cup {Request("delete_card", "delete_card", id, NoForm) : id \in CardIds}

\* the handler awaits a store call whose statement k + 1 fails: statements
\* 1..k stay persisted, the call returns (the error, or what it returns
\* when the failure is swallowed), the handler goes on
HandleFail(p) ==
    /\ procs[p].pc \in StorePcs
    /\ faults < MaxFaults
    /\ faults' = faults + 1
    /\ \E fr \in {StoreFrame(procs[p])} :
          /\ WithinBounds(db, fr)
          /\ \E k \in 0..(Len(Program(fr)) - 1) : \E swallowed \in BOOLEAN :
                \E r \in {RunSteps(db, now, fr, k)} :
                   /\ r.fr.ret = None
                   /\ \E f \in {Run(r.db, now, FailStmt(r.fr, swallowed), <<>>)} :
                         /\ db' = f.db
                         /\ last' = f.fr
    /\ \E r \in {HandlerStep(files, now, procs[p], last', "ok")} :
          /\ files' = r.files
          /\ procs' = [procs EXCEPT ![p] = r.rq]
    /\ UNCHANGED <<now, lock, arrived>>

NextSeqFail ==
    \/ Arrive(1, FaultRequests)
    \/ Handle(1, {"ok"})
    \/ HandleFail(1)
    \/ TickClock(Instants)

SpecSeqFail == InitSeq /\ [][NextSeqFail]_vars

(***************************************************************************)
(* Properties                                                              *)
(***************************************************************************)
StrictlyAscending(names) ==
    \A i \in 1..Len(names) : \A j \in 1..Len(names) :
        i < j => TextLess(names[i], names[j])

NonBlank(name) == \E k \in 1..Len(name) : ~is_whitespace(name[k])

\* a hydrated card shows exactly the scalars, children and tags of input
Shows(card, input) ==
    /\ card.name = input.name /\ card.title = input.title
    /\ card.company = input.company /\ card.website = input.website
    /\ card.notes = input.notes
    /\ Len(card.phones) = Len(input.phones)
    /\ \A i \in 1..Len(input.phones) :
          /\ card.phones[i].label = input.phones[i].label
          /\ card.phones[i].number = input.phones[i].number
    /\ Len(card.emails) = Len(input.emails)
    /\ \A i \in 1..Len(input.emails) :
          /\ card.emails[i].label = input.emails[i].label
          /\ card.emails[i].address = input.emails[i].address
    /\ Len(card.addresses) = Len(input.addresses)
    /\ \A i \in 1..Len(input.addresses) :
          /\ card.addresses[i].label = input.addresses[i].label
          /\ card.addresses[i].street = input.addresses[i].street
          /\ card.addresses[i].city = input.addresses[i].city
          /\ card.addresses[i].country = input.addresses[i].country
          /\ card.addresses[i].postal = input.addresses[i].postal
    /\ StrictlyAscending(card.tags)
    /\ Range(card.tags) = {t \in Range(input.tags) : NonBlank(t)}

\* C1: create(input) followed by get(id) returns the input's scalar fields,
\* its phones, emails and addresses in input order, and its distinct
\* non-blank tags in ascending order.
C1_CreateThenGet ==
    Returned(last, "create_card") =>
        LET got == get_card(db, last.ret[1].val)
        IN got.ok /\ got.val # None /\ Shows(got.val[1], last.input)

\* a create of InputA (a duplicate and a blank tag, two phones) has returned
C1_Witness ==
    /\ Returned(last, "create_card") /\ last.input = InputA
    /\ get_card(db, last.ret[1].val).val[1].tags = <<<<97>>, <<98>>>>
    /\ Len(get_card(db, last.ret[1].val).val[1].phones) = 2

\* the child ids of a card, per table
ChildIds(d, id) ==
    [phones |-> {r.id : r \in {x \in d.card_phones : x.card_id = id}},
     emails |-> {r.id : r \in {x \in d.card_emails : x.card_id = id}},
     addresses |-> {r.id : r \in {x \in d.card_addresses : x.card_id = id}}]

\* C2: after a successful update(id, input2), get(id) returns exactly
\* input2's children and tags; no child row of the card from before the
\* update is still present and every child id is a new one.
C2_UpdateReplaces ==
    [][Returned(last', "update_card") =>
         LET id == last'.id
             old == ChildIds(db, id)
             new == ChildIds(db', id)
             got == get_card(db', id)
         IN /\ got.ok /\ got.val # None /\ Shows(got.val[1], last'.input)
            /\ old.phones \cap Ids(db'.card_phones) = {}
            /\ old.emails \cap Ids(db'.card_emails) = {}
            /\ old.addresses \cap Ids(db'.card_addresses) = {}
            /\ {p.id : p \in Range(got.val[1].phones)} = new.phones
            /\ {e.id : e \in Range(got.val[1].emails)} = new.emails
            /\ {a.id : a \in Range(got.val[1].addresses)} = new.addresses
            /\ new.phones \cap old.phones = {}
            /\ new.emails \cap old.emails = {}
            /\ new.addresses \cap old.addresses = {}]_vars

\* the only card ever created had phones and was updated to InputC: its
\* phone row is the third one ever inserted
C2_Witness ==
    /\ Returned(last, "update_card") /\ last.input = InputC
    /\ db.seq.cards = 1
    /\ ChildIds(db, last.id).phones = {3}

\* C4: once delete(id) has succeeded, get(id) is None and the id is in no
\* later list(); another delete(id) returns None and changes nothing.
C4_DeleteIsFinal ==
    /\ [](Returned(last, "delete_card") /\ last.ret[1].val # None =>
            /\ get_card(db, last.id) = Ok(None)
            /\ last.id \notin SelectIds(db, None, None))
    /\ [][\A id \in CardIds :
            (id <= db.seq.cards /\ ~CardExists(db, id)) =>
               /\ ~CardExists(db', id)
               /\ get_card(db', id) = Ok(None)
               /\ id \notin SelectIds(db', None, None)
               /\ (last'.op = "delete_card" /\ last'.id = id =>
                      last'.ret = Some(Ok(None)) /\ db' = db)]_vars

\* a second delete of a deleted card has returned None
C4_Witness ==
    /\ last.op = "delete_card" /\ last.ret = Some(Ok(None))
    /\ last.id <= db.seq.cards
    /\ db.cards # {}

TagNames(d) == {t.name : t \in d.tags}

\* C7: a tag name in the tags table stays there in every later state.
C7_TagsNeverShrink == [][TagNames(db) \subseteq TagNames(db')]_vars

\* tags are left although every card was deleted
C7_Witness ==
    /\ db.tags # {} /\ db.cards = {} /\ db.card_tags = {}
    /\ last.op = "delete_card"

\* C8: listTags() returns every tag of the vocabulary once, in ascending
\* name order, each with the number of existing cards linked to it.
C8_ListTagsCounts ==
    LET r == list_tags(db)
    IN /\ r.ok
       /\ StrictlyAscending([i \in 1..Len(r.val) |-> r.val[i].name])
       /\ {x.name : x \in Range(r.val)} = TagNames(db)
       /\ \A x \in Range(r.val) :
             x.count = Cardinality({c \in db.cards :
                          \E t \in db.tags : \E ct \in db.card_tags :
                             t.name = x.name /\ ct.tag_id = t.id
                             /\ ct.card_id = c.id})

\* listTags has returned one tag with two cards and one with none
C8_Witness ==
    /\ Returned(last, "list_tags")
    /\ \E x \in Range(last.ret[1].val) : x.count = 0
    /\ \E x \in Range(last.ret[1].val) : x.count = 2

\* the ids of the cards list(q, tag) returns
ListedIds(d, q, tag) ==
    LET ord == CHOOSE o \in Orders(d, SelectIds(d, q, tag)) : TRUE
    IN {c.id : c \in Range(list_cards(d, q, tag, ord).val)}

\* q occurs in text as a substring, ignoring case, every character of q
\* standing for itself
Contains(text, q) ==
    \E i \in 0..(Len(text) - Len(q)) :
        \A k \in 1..Len(q) : to_lowercase(text[i + k]) = to_lowercase(q[k])

\* C9: list(q) returns exactly the cards whose name, company or one of whose
\* email addresses contains q as a literal case-insensitive substring.
C9_ListByQueryLiteral ==
    Returned(last, "list_cards") /\ last.q # None /\ last.tag = None =>
        {c.id : c \in Range(last.ret[1].val)}
          = {c.id : c \in {x \in db.cards :
                \/ Contains(x.name, last.q[1])
                \/ Contains(x.company, last.q[1])
                \/ \E e \in db.card_emails :
                      e.card_id = x.id /\ Contains(e.address, last.q[1])}}

\* C10: list(tag=t) returns exactly the cards linked to the tag named t,
\* compared exactly; list(q, tag=t) returns the cards that are in both
\* list(q) and list(tag=t).
C10_ListByTag ==
    Returned(last, "list_cards") /\ last.tag # None =>
        LET ids == {c.id : c \in Range(last.ret[1].val)}
        IN /\ last.q = None =>
                ids = {c.id : c \in {x \in db.cards :
                          \E t \in db.tags :
                             /\ t.name = last.tag[1]
                             /\ [card_id |-> x.id, tag_id |-> t.id] \in db.card_tags}}
           /\ last.q # None =>
                ids = ListedIds(db, last.q, None) \cap ListedIds(db, None, last.tag)

\* list(q="a", tag="A") has returned one of two cards; list(q) alone
\* returns both and the other card carries the tag "a"
C10_Witness ==
    /\ Returned(last, "list_cards")
    /\ last.q = Some(<<97>>) /\ last.tag = Some(<<65>>)
    /\ Len(last.ret[1].val) = 1
    /\ Cardinality(ListedIds(db, last.q, None)) = 2
    /\ Cardinality(ListedIds(db, None, Some(<<97>>))) = 2

\* the caller's call of op has returned Ok
Done(p, op) ==
    procs[p].st = "done" /\ procs[p].fr.op = op /\ procs[p].fr.ret[1].ok

\* C3: every phone, email, address and card-tag row references an existing
\* card, also after calls that aborted on a failing statement; right after
\* a successful delete(id) no such row of the card is left.
C3_ChildrenReferenceCards ==
    /\ \A r \in db.card_phones : CardExists(db, r.card_id)
    /\ \A r \in db.card_emails : CardExists(db, r.card_id)
    /\ \A r \in db.card_addresses : CardExists(db, r.card_id)
    /\ \A r \in db.card_tags : CardExists(db, r.card_id)
    /\ \A p \in DOMAIN procs :
          Done(p, "delete_card") /\ procs[p].fr.ret[1].val # None =>
             /\ \A r \in db.card_phones : r.card_id # procs[p].fr.id
             /\ \A r \in db.card_emails : r.card_id # procs[p].fr.id
             /\ \A r \in db.card_addresses : r.card_id # procs[p].fr.id
             /\ \A r \in db.card_tags : r.card_id # procs[p].fr.id

\* a delete has succeeded after a create of InputA was aborted between its
\* two phone rows, and the deleted card had a phone
C3_Witness ==
    /\ Done(1, "delete_card") /\ procs[1].fr.ret[1].val # None
    /\ faults = 1
    /\ db.seq.card_phones >= 2
    /\ \E c \in db.cards :
          /\ c.name = InputA.name
          /\ Cardinality({r \in db.card_phones : r.card_id = c.id}) = 1

\* C5: the statements of a store call run with the connection lock held by
\* that call alone, so get and list return only aggregates as a completed
\* create or update left them, and between calls the store holds only such
\* aggregates.
C5_Serialized ==
    /\ Cardinality({p \in DOMAIN procs : procs[p].st = "running"}) <= 1
    /\ \A p \in DOMAIN procs : procs[p].st = "running" => lock = p
    /\ \A p \in DOMAIN procs :
          Done(p, "get_card") /\ procs[p].fr.ret[1].val # None =>
             \E input \in Inputs : Shows(procs[p].fr.ret[1].val[1], input)
    /\ \A p \in DOMAIN procs :
          Done(p, "list_cards") =>
             \A c \in Range(procs[p].fr.ret[1].val) :
                \E input \in Inputs : Shows(c, input)
    /\ lock = 0 =>
          \A c \in db.cards :
             \E input \in Inputs : Shows(fetch_card_by_id(db, c.id)[1], input)

\* get(1) has returned the card as InputA left it and the concurrent
\* update(1, InputC) is past its first statements
C5_Witness ==
    /\ Done(1, "get_card") /\ procs[1].fr.ret[1].val # None
    /\ Shows(procs[1].fr.ret[1].val[1], InputA)
    /\ procs[2].st = "running" /\ procs[2].fr.op = "update_card"
    /\ procs[2].fr.id = procs[1].fr.id /\ procs[2].fr.input = InputC
    /\ procs[2].fr.pc >= 3

\* the file a stored photo_path names under the uploads root
FileOf(photo_path) == trim_start_matches(photo_path, UploadsPrefix)

\* C6: write-before-link: under every interleaving of the steps of concurrent
\* upload, photo delete, update-with-photo and card delete requests, every
\* card's non-empty photo_path names a file that exists under the uploads
\* root.
C6_WriteBeforeLink ==
    \A c \in db.cards : c.photo_path # <<>> => FileOf(c.photo_path) \in files

\* the cards a list call has returned
Listed == last.ret[1].val

\* C11: for every q and tag, list returns no card twice (also when several
\* emails of the card match q), every returned card is the fully hydrated
\* card as get returns it, the result is ordered by updated_at
\* non-increasing, and with neither q nor tag every existing card is
\* returned.
C11_ListOnceOrdered ==
    Returned(last, "list_cards") =>
        /\ \A i \in 1..Len(Listed) : \A j \in 1..Len(Listed) :
              i < j => /\ Listed[i].id # Listed[j].id
                       /\ Listed[i].updated_at >= Listed[j].updated_at
        /\ \A i \in 1..Len(Listed) :
              get_card(db, Listed[i].id) = Ok(Some(Listed[i]))
        /\ (last.q = None /\ last.tag = None) =>
              {Listed[i].id : i \in 1..Len(Listed)} = Ids(db.cards)

\* list(q="a") has returned two cards of different updated_at, the newer
\* first, and two emails of one of them match q
C11_Witness ==
    /\ Returned(last, "list_cards")
    /\ last.q = Some(<<97>>) /\ last.tag = None
    /\ Len(Listed) = 2
    /\ Listed[1].updated_at > Listed[2].updated_at
    /\ \E i \in 1..2 :
          Cardinality({k \in 1..Len(Listed[i].emails) :
                          Like(Listed[i].emails[k].address, LikePattern(<<97>>))}) >= 2

\* C12: update(id, input) on an id without a card row fails with "card not
\* found" and leaves every table and the tag vocabulary as they were.
C12_UpdateAbsentUnchanged ==
    [][(last'.op = "update_card" /\ last'.id \notin Ids(db.cards)) =>
          /\ last'.ret = Some(Err("card not found"))
          /\ db' = db]_vars

\* update of an absent id has failed while another card with children
\* exists and the input names a tag that is not in the vocabulary
C12_Witness ==
    /\ last.op = "update_card" /\ last.ret = Some(Err("card not found"))
    /\ ~CardExists(db, last.id)
    /\ db.cards # {} /\ db.card_phones # {}
    /\ last.input.phones # <<>>
    /\ \E i \in 1..Len(last.input.tags) :
          NonBlank(last.input.tags[i]) /\ last.input.tags[i] \notin TagNames(db)

\* the name field is missing or empty after trimming
NameMissing(form) == form.name = None \/ ~NonBlank(form.name[1])

\* a photo part is larger than 5 MiB
Oversized(form) ==
    \E i \in 1..Len(PhotoParts(form)) : PhotoParts(form)[i].len > 5 * 1024 * 1024

RECURSIVE SumLen(_)
SumLen(parts) == IF parts = <<>> THEN 0 ELSE Head(parts).len + SumLen(Tail(parts))

\* the body of the request is longer than 2 MB
OverLimit(form) == form.framing + SumLen(PhotoParts(form)) > 2 * 1024 * 1024

\* a read of the body fails
Unreadable(form) == form.unread # None

\* the request in slot p has just been answered
Answered(p) == procs[p].pc # "done" /\ procs'[p].pc = "done"

DisallowedPhotos == {PhotoExe, PhotoNoExt}

\* C14: an upload whose file name has an extension outside jpg, jpeg, png,
\* webp, or none, is never answered with the storage-failure outcome (500,
\* logged as an internal error) but with a validation error; an upload to
\* an existing card with an allowed extension in any letter case succeeds.
C14_UploadExtensionValidation ==
    \A p \in DOMAIN procs :
        (procs[p].pc = "done" /\ procs[p].h = "upload_photo"
           /\ procs[p].form.photo # None /\ ~OverLimit(procs[p].form)
           /\ ~Unreadable(procs[p].form)) =>
            IF procs[p].form.photo[1] \in DisallowedPhotos
            THEN /\ procs[p].resp # Some(internal_error)
                 /\ procs[p].id \in Ids(db.cards) => procs[p].resp = Some(bad_request)
            ELSE procs[p].id \in Ids(db.cards) => procs[p].resp[1].status = 200

\* C15: no step of an upload, or of an update carrying a photo, whose photo
\* has a disallowed extension changes the files or the target card's
\* photo_path or updated_at: the request is rejected before any write.
C15_RejectedUploadWritesNothing ==
    [][\A p \in DOMAIN procs :
          (procs[p].pc # "done" /\ procs[p].h \in {"upload_photo", "update_card"}
             /\ procs[p].form.photo # None
             /\ procs[p].form.photo[1] \in DisallowedPhotos) =>
                /\ files' = files
                /\ \A c \in db.cards :
                      c.id = procs[p].id =>
                         \E c2 \in db'.cards :
                            /\ c2.id = c.id
                            /\ c2.photo_path = c.photo_path
                            /\ c2.updated_at = c.updated_at]_vars

\* C16: no step of a create request that carries a photo with a disallowed
\* extension changes the store, and the request is answered with a
\* validation error.
C16_CreateBadPhotoUntouched ==
    [][\A p \in DOMAIN procs :
          (procs[p].pc # "done" /\ procs[p].h = "create_card"
             /\ procs[p].form.photo # None
             /\ procs[p].form.photo[1] \in DisallowedPhotos) =>
                /\ db' = db
                /\ Answered(p) => procs'[p].resp = Some(bad_request)]_vars

\* "/uploads/"
UploadsUrl == <<47, 117, 112, 108, 111, 97, 100, 115, 47>>

\* slot p takes a step from position pc of handler h
StepsFrom(p, h, pc) ==
    procs[p].h = h /\ procs[p].pc = pc /\ procs'[p] # procs[p]

\* C17: with requests one at a time, after a successful upload to an existing
\* card get(id) shows photo_url = "/uploads/" + the generated name
\* card_<id>_<millis>.<ext>, which is the url the upload returned, and that
\* file exists; deletePhoto (and the upload itself, for a previous photo)
\* obtains from the store exactly the path the card held, leaves the card
\* without a photo reference and then removes the file of that path; after
\* deletePhoto get(id) shows an empty photo_url.
C17_UploadThenDeletePhoto ==
    /\ [](\A p \in DOMAIN procs :
            /\ (procs[p].pc = "done" /\ procs[p].h = "upload_photo"
                  /\ procs[p].resp[1].status = 200) =>
                  /\ get_card(db, procs[p].id).val # None
                  /\ get_card(db, procs[p].id).val[1].photo_url = procs[p].resp[1].body
                  /\ \E t \in Instants : \E ext \in {<<112, 110, 103>>, <<106, 112, 103>>} :
                        /\ procs[p].resp[1].body
                             = UploadsUrl \o new_filename(procs[p].id, t, ext)
                        /\ new_filename(procs[p].id, t, ext) \in files
            /\ (procs[p].pc = "done" /\ procs[p].h = "delete_photo"
                  /\ procs[p].resp[1].status = 204) =>
                  /\ get_card(db, procs[p].id).val # None
                  /\ get_card(db, procs[p].id).val[1].photo_url = <<>>)
    /\ [][\A p \in DOMAIN procs : \A h \in {"upload_photo", "delete_photo"} :
            /\ StepsFrom(p, h, "delete_card_photo") =>
                  \A c \in db.cards :
                     c.id = procs[p].id =>
                        /\ procs'[p].old_path = c.photo_path
                        /\ \A c2 \in db'.cards : c2.id = c.id => c2.photo_path = <<>>
            /\ StepsFrom(p, h, "remove_file") =>
                  \A name \in files' : UploadsPrefix \o name # procs[p].old_path]_vars

\* an upload that replaces a previous photo has written its file under a new
\* name: the path it obtained from the store is no longer the card's, the
\* file of that path is gone, the new file exists
C17_Witness ==
    \E p \in DOMAIN procs :
        /\ procs[p].h = "upload_photo" /\ procs[p].pc = "update_card_photo"
        /\ procs[p].old_path # <<>>
        /\ procs[p].old_path # procs[p].photo_path
        /\ FileOf(procs[p].old_path) \notin files
        /\ FileOf(procs[p].photo_path) \in files
        /\ \A c \in db.cards : c.id = procs[p].id => c.photo_path = <<>>

\* C18: when a create or update carrying a photo, or an upload, has written
\* its file and the store call that records the path has failed, the request
\* is not answered with a success status.  (Requests run one at a time, so
\* at the final read of create and update the card holds the written path
\* unless recording it failed.)
C18_PhotoLinkFailureReported ==
    [][\A p \in DOMAIN procs :
          /\ (procs[p].h \in {"create_card", "update_card"}
                /\ procs[p].pc = "get_card" /\ Answered(p)
                /\ procs[p].photo_path # <<>>
                /\ \A c \in db.cards :
                      c.id = procs[p].id => c.photo_path # procs[p].photo_path) =>
                procs'[p].resp[1].status \notin {200, 201}
          /\ (StepsFrom(p, "upload_photo", "update_card_photo") /\ ~last'.ret[1].ok) =>
                procs'[p].resp[1].status # 200]_vars

\* C19: when an update or an upload makes a mutating store call for an id
\* that has no card row at that moment (also when a concurrent request
\* deleted the card after the handler's existence check), a response given
\* at that call is NotFound, not logged: never the storage-failure outcome.
C19_AbsentTargetIsNotFound ==
    [][\A p \in DOMAIN procs : \A h \in {"update_card", "upload_photo"} :
          \A pc \in {"update_card", "delete_card_photo", "update_card_photo"} :
             (StepsFrom(p, h, pc) /\ procs[p].id \notin Ids(db.cards) /\ Answered(p)) =>
                procs'[p].resp = Some(not_found)]_vars

\* the most recent call is a create that returned id
Created(id) == Returned(last, "create_card") /\ last.ret[1].val = id

\* C20: card ids are never reused: a create never returns the id of an
\* existing card, and once a card has been deleted no later create returns
\* its id, also when it was the highest id.
C20_IdsNeverReused ==
    /\ [][(Returned(last', "create_card") /\ last' # last) =>
             last'.ret[1].val \notin Ids(db.cards)]_vars
    /\ \A id \in CardIds :
          []((last.op = "delete_card" /\ last.id = id /\ last.ret # None
                /\ last.ret[1].val # None) => []~Created(id))

\* a create has returned id 2 after card 1, then the only and highest card,
\* had been deleted
C20_Witness ==
    /\ Created(2)
    /\ Ids(db.cards) = {2}

\* the most recent call is a mutating call on card id that succeeded: update,
\* updatePhoto, or clearPhoto of an existing card
Mutated(fr, id) ==
    /\ fr.id = id /\ fr.ret # None /\ fr.ret[1].ok
    /\ \/ fr.op \in {"update_card", "update_card_photo"}
       \/ fr.op = "delete_card_photo" /\ fr.ret[1].val # None

\* C21 as stated: every successful update, updatePhoto and clearPhoto (also
\* of a card without a photo) sets the card's updated_at to the store clock,
\* so that updated_at does not decrease and the card is first in list() when
\* the clock is past every other card's updated_at; no step changes the
\* created_at of a card.
C21_MutationsBumpUpdatedAt ==
    [][/\ \A c \in db.cards : \A c2 \in db'.cards :
             c2.id = c.id =>
                /\ c2.created_at = c.created_at
                /\ c2.updated_at >= c.updated_at
                /\ Mutated(last', c.id) =>
                      /\ c2.updated_at = CURRENT_TIMESTAMP(now)
                      /\ (/\ Cardinality(db'.cards) <= MaxCards
                          /\ \A o \in db'.cards :
                                o.id # c.id => o.updated_at < CURRENT_TIMESTAMP(now)) =>
                            \A ord \in Orders(db', SelectIds(db', None, None)) :
                               ord[1] = c.id
       /\ \A id \in CardIds :
             Mutated(last', id) => CardExists(db, id)]_vars

\* C21: every successful update, updatePhoto and clearPhoto (also of a card
\* without a photo) sets the card's updated_at to the second the host clock
\* shows at the operation: updated_at decreases only while the clock shows
\* an earlier second than the card's updated_at (the clock was set back).
\* The card is first in list() when the clock is past every other card's
\* updated_at (the row orders of list() are enumerated for stores of up to
\* MaxCards cards); no step changes the created_at of a card.
C21_MutationsSetUpdatedAt ==
    [][/\ \A c \in db.cards : \A c2 \in db'.cards :
             c2.id = c.id =>
                /\ c2.created_at = c.created_at
                /\ c2.updated_at < c.updated_at =>
                      CURRENT_TIMESTAMP(now) < c.updated_at
                /\ Mutated(last', c.id) =>
                      /\ c2.updated_at = CURRENT_TIMESTAMP(now)
                      /\ (/\ Cardinality(db'.cards) <= MaxCards
                          /\ \A o \in db'.cards :
                                o.id # c.id => o.updated_at < CURRENT_TIMESTAMP(now)) =>
                            \A ord \in Orders(db', SelectIds(db', None, None)) :
                               ord[1] = c.id
       /\ \A id \in CardIds :
             Mutated(last', id) => CardExists(db, id)]_vars

\* clearPhoto of a card that never had a photo has succeeded after the clock
\* advanced: the card's updated_at is the clock, later than its created_at
\* and than the other card's updated_at
C21_Witness ==
    /\ last.op = "delete_card_photo" /\ last.ret = Some(Ok(Some(<<>>)))
    /\ \E c \in db.cards :
          /\ c.id = last.id /\ c.updated_at = CURRENT_TIMESTAMP(now)
          /\ c.created_at < CURRENT_TIMESTAMP(now)
          /\ \E o \in db.cards : o.id # c.id /\ o.updated_at < CURRENT_TIMESTAMP(now)

\* C22: delete(id) of an existing card returns exactly the photo_path the
\* card held before the deletion ("" when it had no photo) and removes the
\* card; delete of an absent id returns None and is answered NotFound; the
\* delete handler then removes the file a non-empty returned path names, and
\* no other file.
C22_DeleteReturnsPhotoPath ==
    [][\A p \in DOMAIN procs :
          /\ StepsFrom(p, "delete_card", "delete_card") =>
                IF CardExists(db, procs[p].id)
                THEN /\ last'.ret = Some(Ok(Some(CardRow(db, procs[p].id).photo_path)))
                     /\ procs'[p].old_path = CardRow(db, procs[p].id).photo_path
                     /\ ~CardExists(db', procs[p].id)
                ELSE /\ last'.ret = Some(Ok(None))
                     /\ procs'[p].resp = Some(not_found)
                     /\ db' = db
          /\ StepsFrom(p, "delete_card", "remove_file") =>
                /\ procs[p].old_path # <<>> =>
                      \A name \in files' : UploadsPrefix \o name # procs[p].old_path
                /\ files' \subseteq files
                /\ \A name \in files \ files' : UploadsPrefix \o name = procs[p].old_path
                /\ procs'[p].resp = Some(Response(204, FALSE, <<>>))]_vars

\* delete of a card with a photo has returned the card's path, the card is
\* gone and the handler is about to remove the file, which exists
C22_Witness ==
    \E p \in DOMAIN procs :
        /\ procs[p].h = "delete_card" /\ procs[p].pc = "remove_file"
        /\ procs[p].old_path # <<>>
        /\ last.op = "delete_card" /\ last.ret = Some(Ok(Some(procs[p].old_path)))
        /\ ~CardExists(db, procs[p].id)
        /\ FileOf(procs[p].old_path) \in files

(***************************************************************************)
(* SpecServe: handlers.rs serve_uploads, GET /uploads/{filename}.  A path  *)
(* is a sequence of components; the uploads root is the relative path      *)
(* "uploads"; `files` holds the names of the files directly in it.         *)
(***************************************************************************)
MaxNameLen == 4    \* characters of a requested filename

\* the characters of requested filenames: '.', '/', '\', 'a'
NameChars == {46, 47, 92, 97}

\* str::contains(pat)
contains(s, pat) ==
    \E i \in 0..(Len(s) - Len(pat)) : SubSeq(s, i + 1, i + Len(pat)) = pat

\* the filesystem root "/"
FsRoot == <<47>>

\* "uploads": state.uploads_dir
uploads_dir == <<<<117, 112, 108, 111, 97, 100, 115>>>>

\* Path::join: an absolute path replaces the base
PathJoin(base, filename) ==
    IF filename # <<>> /\ filename[1] = 47
    THEN <<FsRoot>> \o SplitSlash(filename)
    ELSE base \o SplitSlash(filename)

\* the directories of the host: the working directory, its ancestors, the
\* filesystem root, the uploads root and its sub directory "aa"
IsDir(at) ==
    \/ \A i \in 1..Len(at) : at[i] = <<46, 46>>
    \/ at \in {<<FsRoot>>, uploads_dir, uploads_dir \o <<<<97, 97>>>>}

\* the location the operating system resolves a path to, component by
\* component: a component, also an empty one or ".", is looked up only in a
\* directory (ENOTDIR in a regular file, ENOENT in a missing entry: None);
\* ".." steps to the parent directory
RECURSIVE Walk(_, _)
Walk(at, rest) ==
    IF rest = <<>> THEN Some(at)
    ELSE IF ~IsDir(at) THEN None
    ELSE LET c == Head(rest)
         IN IF c = <<>> \/ c = <<46>> THEN Walk(at, Tail(rest))
            ELSE IF c = <<46, 46>>
            THEN IF at = <<FsRoot>> THEN Walk(at, Tail(rest))
                 ELSE IF at = <<>> \/ at[Len(at)] = <<46, 46>>
                 THEN Walk(Append(at, c), Tail(rest))
                 ELSE Walk(SubSeq(at, 1, Len(at) - 1), Tail(rest))
            ELSE Walk(Append(at, c), Tail(rest))

\* files outside the uploads root: "a" next to the root, "/a", and "a" in
\* the sub directory "aa" of the root
Outside ==
    {<<<<97>>>>, <<FsRoot, <<97>>>>, uploads_dir \o <<<<97, 97>>, <<97>>>>}

\* fs::read(path) returns Ok: the path resolves, and to a file
IsFile(fs, at) ==
    /\ at # None
    /\ \/ at[1] \in Outside
       \/ /\ Len(at[1]) = 2 /\ SubSeq(at[1], 1, 1) = uploads_dir
          /\ at[1][2] \in fs

\* serve_uploads without the traversal check
serve_uploads_unchecked(fs, filename) ==
    LET at == Walk(<<>>, PathJoin(uploads_dir, filename))
    IN [read |-> Some(at),
        resp |-> IF IsFile(fs, at) THEN Response(200, FALSE, at[1])
                 ELSE Response(404, FALSE, <<>>)]

\* serve_uploads: the location fs::read resolves its path to, if it is
\* called (None inside: the path does not resolve), and the response
serve_uploads(fs, filename) ==
    IF contains(filename, <<46, 46>>) \/ contains(filename, <<47>>)
    THEN [read |-> None, resp |-> Response(400, FALSE, <<>>)]
    ELSE LET at == Walk(<<>>, PathJoin(uploads_dir, filename))
         IN [read |-> Some(at),
             resp |-> IF IsFile(fs, at) THEN Response(200, FALSE, at[1])
                      ELSE Response(404, FALSE, <<>>)]

\* a photo request: the requested filename, the path read, the response
ServeRequest(pc, filename) ==
    [h |-> "serve_uploads", pc |-> pc, filename |-> filename,
     read |-> None, resp |-> None]

\* the route matches one non-empty path segment, percent-decoded
ServeRequests ==
    {ServeRequest("serve", f) :
        f \in UNION {[1..n -> NameChars] : n \in 1..MaxNameLen}}

\* the files in the uploads root: "a" and "aa.a", or none
InitServe ==
    /\ db = init_db
    /\ now = 0
    /\ last = NoCall
    /\ lock = 0
    /\ procs = [p \in {1} |-> [ServeRequest("done", <<>>) EXCEPT !.h = "none"]]
    /\ files \in {{}, {<<97>>, <<97, 97, 46, 97>>}}
    /\ faults = 0
    /\ arrived = 0

Serve(p) ==
    /\ procs[p].pc = "serve"
    /\ \E r \in {serve_uploads(files, procs[p].filename)} :
          procs' = [procs EXCEPT ![p].pc = "done", ![p].read = r.read,
                                 ![p].resp = Some(r.resp)]
    /\ UNCHANGED <<db, now, last, lock, files, faults, arrived>>

NextServe ==
    \/ Arrive(1, ServeRequests)
    \/ Serve(1)

SpecServe == InitServe /\ [][NextServe]_vars

\* C23: photo retrieval answers every filename that contains '/' or ".."
\* with a rejection without reading any file; for every other filename the
\* path it reads is the uploads root itself or an entry directly in it, and
\* a file it serves is the file of that name directly in the uploads root.
C23_ServeFlatNamesOnly ==
    \A p \in DOMAIN procs :
        (procs[p].h = "serve_uploads" /\ procs[p].pc = "done") =>
            LET f == procs[p].filename
            IN IF \/ \E i \in 1..Len(f) : f[i] = 47
                  \/ \E i \in 1..(Len(f) - 1) : f[i] = 46 /\ f[i + 1] = 46
               THEN /\ procs[p].read = None
                    /\ procs[p].resp[1].status = 400
               ELSE /\ procs[p].read # None
                    /\ procs[p].read[1] \in
                          {Some(uploads_dir), Some(uploads_dir \o <<f>>)}
                    /\ procs[p].resp[1].status # 400
                    /\ procs[p].resp[1].status = 200 =>
                          /\ procs[p].read[1] = Some(uploads_dir \o <<f>>)
                          /\ f \in files

\* "../a" has been rejected although a file "a" exists next to the root
C23_Witness ==
    \E p \in DOMAIN procs :
        /\ procs[p].h = "serve_uploads" /\ procs[p].pc = "done"
        /\ procs[p].filename = <<46, 46, 47, 97>>
        /\ procs[p].resp[1].status = 400
        /\ IsFile(files, Walk(<<>>, PathJoin(uploads_dir, procs[p].filename)))

\* the non-blank names of a tag input
NonBlankNames(tags) == {n \in Range(tags) : NonBlank(n)}

\* the ids of the tags linked to card id
LinkedTagIds(d, id) == {r.tag_id : r \in {x \in d.card_tags : x.card_id = id}}

\* C24: no two tag rows have the same name or the same id and no tag name is
\* blank; a create, and an update of an existing card, never fails; it keeps
\* every tag row it found (same id, same name), adds exactly the non-blank
\* names of its input that were not in the vocabulary, and links the card
\* once to each non-blank name of the input and to nothing else.
C24_TagNamesUnique ==
    /\ [](\A t1 \in db.tags : \A t2 \in db.tags :
             (t1.name = t2.name \/ t1.id = t2.id) => t1 = t2)
    /\ [](\A t \in db.tags : NonBlank(t.name))
    /\ [][(last'.op \in {"create_card", "update_card"}
             /\ (last'.op = "update_card" => CardExists(db, last'.id))) =>
             /\ last'.ret # None /\ last'.ret[1].ok
             /\ db.tags \subseteq db'.tags
             /\ TagNames(db') = TagNames(db) \cup NonBlankNames(last'.input.tags)
             /\ LinkedTagIds(db', last'.id)
                  = {t.id : t \in {x \in db'.tags :
                                      x.name \in NonBlankNames(last'.input.tags)}}
             /\ Cardinality({r \in db'.card_tags : r.card_id = last'.id})
                  = Cardinality(NonBlankNames(last'.input.tags))]_vars

\* the second card was created from InputA (tags "b", " ", "a", "b") when
\* "b" was already tag 1: the card is linked once to tag 1 and once to the
\* new tag "a", which is tag 3 since the ignored insert of "b" took rowid 2
C24_Witness ==
    /\ Returned(last, "create_card") /\ last.input = InputA
    /\ last.id = 2
    /\ [id |-> 1, name |-> <<98>>] \in db.tags
    /\ [id |-> 3, name |-> <<97>>] \in db.tags
    /\ Cardinality(db.tags) = 2
    /\ LinkedTagIds(db, 2) = {1, 3}
    /\ db.seq.tags = 4

\* the positions of the statements named s that the call has executed
ExecutedStmts(fr, s) == {i \in 1..(fr.pc - 1) : Program(fr)[i].s = s}

\* the database holds exactly what the executed statements of a create or
\* update wrote for its card: the card row, as many leading phones, emails
\* and addresses of the input as INSERTs were executed, and the links of the
\* executed link statements
PrefixPersisted(d, fr) ==
    fr.pc >= 2 =>
       /\ CardExists(d, fr.id)
       /\ CardRow(d, fr.id).name = fr.input.name
       /\ (fr.op = "create_card" \/ ExecutedStmts(fr, "DeletePhones") # {}) =>
             LET n == Cardinality(ExecutedStmts(fr, "InsertPhone"))
                 rows == SelectPhones(d, fr.id)
             IN [i \in 1..Len(rows) |->
                    CardFormPhoneInput(rows[i].label, rows[i].number)]
                  = SubSeq(fr.input.phones, 1, n)
       /\ (fr.op = "create_card" \/ ExecutedStmts(fr, "DeleteEmails") # {}) =>
             LET n == Cardinality(ExecutedStmts(fr, "InsertEmail"))
                 rows == SelectEmails(d, fr.id)
             IN [i \in 1..Len(rows) |->
                    CardFormEmailInput(rows[i].label, rows[i].address)]
                  = SubSeq(fr.input.emails, 1, n)
       /\ (fr.op = "create_card" \/ ExecutedStmts(fr, "DeleteAddresses") # {}) =>
             Len(SelectAddresses(d, fr.id))
               = Cardinality(ExecutedStmts(fr, "InsertAddress"))
       /\ (fr.op = "create_card" \/ ExecutedStmts(fr, "DeleteCardTags") # {}) =>
             Range(SelectTags(d, fr.id))
               = {fr.input.tags[Program(fr)[i].i] :
                     i \in ExecutedStmts(fr, "InsertCardTag")}

\* C25: when the k-th statement of create or update fails, the call returns
\* a storage error at once: the failing step changes nothing in the
\* database, the call's position stays at k, and from then on the database
\* holds exactly what statements 1..k-1 wrote, with no rollback and nothing
\* of a later statement.
C25_NoRollback ==
    /\ [][\A p \in DOMAIN procs :
            (procs[p].st = "running" /\ faults' = faults + 1
               /\ procs[p].fr.op \in {"create_card", "update_card"}) =>
               /\ procs'[p].st = "done"
               /\ procs'[p].fr.ret = Some(Err("storage"))
               /\ procs'[p].fr.pc = procs[p].fr.pc
               /\ db' = db
               /\ lock' = 0]_vars
    /\ [](\A p \in DOMAIN procs :
            (procs[p].st \in {"running", "done"}
               /\ procs[p].fr.op \in {"create_card", "update_card"}) =>
               PrefixPersisted(db, procs[p].fr))

\* an update of a card created from InputC with InputA has failed at its
\* first phone INSERT: the card has the new name and no phone, and still its
\* old email and its old tag links
C25_Witness ==
    /\ procs[1].st = "done" /\ procs[1].fr.op = "update_card"
    /\ procs[1].fr.ret = Some(Err("storage"))
    /\ procs[1].fr.input = InputA /\ procs[1].fr.pc = 3
    /\ CardRow(db, procs[1].fr.id).name = InputA.name
    /\ SelectPhones(db, procs[1].fr.id) = <<>>
    /\ Len(SelectEmails(db, procs[1].fr.id)) = 1
    /\ SelectTags(db, procs[1].fr.id) = <<<<65>>, <<97>>>>

(***************************************************************************)
(* SpecSeqRemove: one request at a time; the calls to the filesystem may   *)
(* fail: fs::remove_file in remove_file_if_exists, fs::create_dir_all and  *)
(* fs::write in save_photo.                                                *)
(***************************************************************************)
NextSeqRemove ==
    \/ Arrive(1, FaultRequests)
    \/ Handle(1, {"ok", "err", "partial"})
    \/ TickClock(Instants)

SpecSeqRemove == InitSeq /\ [][NextSeqRemove]_vars

\* the handlers that replace or delete a photo
PhotoHandlers == {"upload_photo", "update_card", "delete_photo"}

\* the step of slot p is a call of save_photo to the filesystem that fails
SaveFails(p) ==
    procs[p].pc \in {"create_dir_all", "write"} /\ faults' = faults + 1

\* C26: on photo replace and photo delete the store call that reads and
\* clears photo_path comes before the removal of the old file is attempted
\* (at the removal the card holds no path, and the clearing step touches no
\* file); a failed removal changes neither store nor files and is not
\* reported: a photo delete is answered 204, a replace goes on to save the
\* new file, and a request on an existing card that is not ended by a
\* failure to save the new file is answered 200 or 204, never logged, with
\* the card's photo_path empty after a delete and the new path after a
\* replace.
C26_RemoveFailureSwallowed ==
    [][\A p \in DOMAIN procs : \A h \in PhotoHandlers :
          /\ StepsFrom(p, h, "delete_card_photo") =>
                /\ files' = files
                /\ procs'[p].pc \in {"remove_file", "done"}
                /\ \A c \in db.cards : \A c2 \in db'.cards :
                      (c.id = procs[p].id /\ c2.id = c.id) =>
                         /\ procs'[p].old_path = c.photo_path
                         /\ c2.photo_path = <<>>
          /\ StepsFrom(p, h, "remove_file") =>
                /\ \A c \in db.cards : c.id = procs[p].id => c.photo_path = <<>>
                /\ db' = db
                /\ faults' = faults + 1 =>
                      /\ files' = files
                      /\ IF h = "delete_photo"
                         THEN procs'[p].resp = Some(Response(204, FALSE, <<>>))
                         ELSE procs'[p].pc = "save_photo"
          /\ (procs[p].h = h /\ Answered(p) /\ CardExists(db', procs[p].id)
                /\ ~SaveFails(p)) =>
                /\ ~procs'[p].resp[1].logged
                /\ h = "delete_photo" =>
                      /\ procs'[p].resp[1].status = 204
                      /\ CardRow(db', procs[p].id).photo_path = <<>>
                /\ h = "upload_photo" =>
                      /\ procs'[p].resp[1].status = 200
                      /\ procs'[p].resp[1].body
                           = <<47>> \o CardRow(db', procs[p].id).photo_path
                      /\ FileOf(CardRow(db', procs[p].id).photo_path) \in files'
                /\ h = "update_card" =>
                      /\ procs'[p].resp[1].status = 200
                      /\ procs[p].form.photo # None =>
                            /\ CardRow(db', procs[p].id).photo_path # <<>>
                            /\ FileOf(CardRow(db', procs[p].id).photo_path)
                                 \in files']_vars

\* an upload that replaces a photo has gone on after the removal of the old
\* file failed: the old file is still there, the new file is written under
\* another name, and the handler is about to record its path
C26_Witness ==
    \E p \in DOMAIN procs :
        /\ procs[p].h = "upload_photo" /\ procs[p].pc = "update_card_photo"
        /\ faults = 1
        /\ procs[p].old_path # <<>>
        /\ procs[p].old_path # procs[p].photo_path
        /\ FileOf(procs[p].old_path) \in files
        /\ FileOf(procs[p].photo_path) \in files
        /\ CardRow(db, procs[p].id).photo_path = <<>>

\* C27: get(id) returns None only when no card row with that id exists: a
\* failure while reading the card row ends the call with a storage error,
\* never with None.
C27_GetNoneOnlyWhenAbsent ==
    \A p \in DOMAIN procs :
        (procs[p].st = "done" /\ procs[p].fr.op = "get_card"
           /\ procs[p].fr.ret = Some(Ok(None))) =>
            ~CardExists(db, procs[p].fr.id)

(***************************************************************************)
(* SpecCancel: two concurrent requests whose callers may go away.  A store *)
(* call is a closure handed to spawn_blocking; the handler awaits its      *)
(* JoinHandle.  When the request is abandoned the handler future is        *)
(* dropped and with it the JoinHandle, which detaches the closure: it      *)
(* still takes the lock, runs its statements and returns.                  *)
(***************************************************************************)
\* a caller whose request may have been abandoned
CancelCaller(st, fr, gone) == [st |-> st, fr |-> fr, gone |-> gone]

\* the calls of the abandoned requests: a create, an update and a delete
CancelCalls ==
    {Frame("create_card", 0, InputC, <<>>, None, None),
     Frame("update_card", 1, InputA, <<>>, None, None),
     Frame("delete_card", 1, NoInput, <<>>, None, None)}

InitCancel ==
    /\ db = init_db
    /\ now = 0
    /\ last = NoCall
    /\ lock = 0
    /\ procs = [p \in {1, 2} |-> CancelCaller("idle", NoCall, FALSE)]
    /\ files = {}
    /\ faults = 0
    /\ arrived = 0

\* spawn_blocking(move || store::f(&conn, ...))
DispatchC(p) ==
    /\ procs[p].st = "idle"
    /\ arrived < MaxRequests
    /\ arrived' = arrived + 1
    /\ \E fr \in CancelCalls :
          procs' = [procs EXCEPT ![p] = CancelCaller("waiting", fr, FALSE)]
    /\ UNCHANGED <<db, now, last, lock, files, faults>>

\* let conn = conn.lock().unwrap()
AcquireC(p) ==
    /\ procs[p].st = "waiting"
    /\ MutexFree(lock)
    /\ lock' = p
    /\ procs' = [procs EXCEPT ![p].st = "running"]
    /\ UNCHANGED <<db, now, last, files, faults, arrived>>

\* the next statement of the call and, after the last one, its return (as
\* Exec); with the return the guard is dropped
StepC(p) ==
    /\ procs[p].st = "running"
    /\ \E s \in {ExecStmt(db, now, procs[p].fr, <<>>)} :
       \E r \in {[db |-> s.db, fr |-> Return(s.fr)]} :
          /\ db' = r.db
          /\ procs' = [procs EXCEPT
                ![p].st = IF r.fr.ret = None THEN "running" ELSE "done",
                ![p].fr = r.fr]
          /\ lock' = IF r.fr.ret = None THEN lock ELSE 0
    /\ UNCHANGED <<now, last, files, faults, arrived>>

\* a runtime in which dropping the handle stops the closure where it is
AbandonCancels(p) ==
    /\ procs[p].st \in {"waiting", "running"}
    /\ ~procs[p].gone
    /\ procs' = [procs EXCEPT ![p] = CancelCaller("idle", NoCall, FALSE)]
    /\ lock' = IF lock = p THEN 0 ELSE lock
    /\ UNCHANGED <<db, now, last, files, faults, arrived>>

\* the client goes away: the handler future and its JoinHandle are dropped
Abandon(p) ==
    /\ procs[p].st \in {"waiting", "running"}
    /\ ~procs[p].gone
    /\ procs' = [procs EXCEPT ![p].gone = TRUE]
    /\ UNCHANGED <<db, now, last, lock, files, faults, arrived>>

\* the result is taken by the handler, or dropped with the detached task
CollectC(p) ==
    /\ procs[p].st = "done"
    /\ procs' = [procs EXCEPT ![p] = CancelCaller("idle", NoCall, FALSE)]
    /\ UNCHANGED <<db, now, last, lock, files, faults, arrived>>

NextCancel ==
    \E p \in {1, 2} :
        DispatchC(p) \/ AcquireC(p) \/ StepC(p) \/ Abandon(p) \/ CollectC(p)

\* a blocking thread that can take the lock or run its next statement does
\* so; every holder releases the lock with its return
SpecCancel ==
    /\ InitCancel
    /\ [][NextCancel]_vars
    /\ \A p \in {1, 2} : WF_vars(AcquireC(p)) /\ WF_vars(StepC(p))

\* C28: abandoning a request changes nothing of its dispatched store call;
\* the call of an abandoned request still takes the lock, executes every
\* statement to its return and releases the lock; and whenever the lock is
\* free every card is a complete aggregate as a completed create or update
\* leaves it, so later operations see the effects of a call that ran to
\* completion.
C28_AbandonDoesNotCancel ==
    /\ [][\A p \in DOMAIN procs :
            (procs'[p].gone /\ ~procs[p].gone) =>
               /\ db' = db /\ lock' = lock
               /\ procs'[p].st = procs[p].st
               /\ procs'[p].fr = procs[p].fr]_vars
    /\ [](lock = 0 =>
            \A c \in db.cards :
               \E input \in Inputs : Shows(fetch_card_by_id(db, c.id)[1], input))
    /\ \A p \in {1, 2} :
          (procs[p].gone /\ procs[p].st \in {"waiting", "running"})
             ~> (procs[p].gone /\ procs[p].st = "done" /\ lock # p
                   /\ procs[p].fr.ret # None)

\* the update of an abandoned request has run to its return: the request was
\* abandoned, the call is done, the lock is free and the card is as InputA
\* describes it
C28_Witness ==
    \E p \in DOMAIN procs :
        /\ procs[p].gone /\ procs[p].st = "done"
        /\ procs[p].fr.op = "update_card" /\ procs[p].fr.ret = Some(Ok(<<>>))
        /\ lock = 0
        /\ Shows(fetch_card_by_id(db, 1)[1], InputA)

\* C29: update(id, input) of an existing card succeeds and leaves the card's
\* photo_path and created_at as they were; a card's photo_path changes only
\* in a step of updatePhoto or clearPhoto on that card, and a new card has
\* none.
C29_UpdateKeepsPhoto ==
    [][/\ (last'.op = "update_card" /\ CardExists(db, last'.id)) =>
             /\ last'.ret = Some(Ok(<<>>))
             /\ CardExists(db', last'.id)
             /\ CardRow(db', last'.id).photo_path = CardRow(db, last'.id).photo_path
             /\ CardRow(db', last'.id).created_at = CardRow(db, last'.id).created_at
       /\ \A c \in db.cards : \A c2 \in db'.cards :
             (c2.id = c.id /\ c2.photo_path # c.photo_path) =>
                /\ last'.op \in {"update_card_photo", "delete_card_photo"}
                /\ last'.id = c.id
       /\ \A c2 \in db'.cards :
             c2.id \notin Ids(db.cards) => c2.photo_path = <<>>]_vars

\* an update with another input has succeeded, after the clock advanced, on
\* a card that holds a photo
C29_Witness ==
    /\ Returned(last, "update_card")
    /\ CardExists(db, last.id)
    /\ CardRow(db, last.id).photo_path # <<>>
    /\ CardRow(db, last.id).name = last.input.name
    /\ CardRow(db, last.id).updated_at > CardRow(db, last.id).created_at

\* card c2 is card c but for photo_path and updated_at
SameButPhoto(c, c2) ==
    [c2 EXCEPT !.photo_path = c.photo_path, !.updated_at = c.updated_at] = c

\* C30: updatePhoto(id, path) and clearPhoto(id) on an existing card change
\* nothing but that card's photo_path (to path, to "") and updated_at: its
\* other columns, every other card, the phone, email and address rows with
\* their ids, the tag links, the tag vocabulary and the id counters stay as
\* they were; on an id without a card row updatePhoto fails with "card not
\* found" and clearPhoto returns None, and the database is unchanged.
C30_PhotoMutatorsFrame ==
    [][last'.op \in {"update_card_photo", "delete_card_photo"} =>
         IF CardExists(db, last'.id)
         THEN /\ [db' EXCEPT !.cards = db.cards] = db
              /\ Ids(db'.cards) = Ids(db.cards)
              /\ \A c \in db.cards : \A c2 \in db'.cards :
                    c2.id = c.id =>
                       IF c.id = last'.id
                       THEN /\ SameButPhoto(c, c2)
                            /\ c2.photo_path = IF last'.op = "update_card_photo"
                                               THEN last'.path ELSE <<>>
                            /\ last'.ret = IF last'.op = "update_card_photo"
                                           THEN Some(Ok(<<>>))
                                           ELSE Some(Ok(Some(c.photo_path)))
                       ELSE c2 = c
         ELSE /\ db' = db
              /\ last'.ret = IF last'.op = "update_card_photo"
                             THEN Some(Err("card not found"))
                             ELSE Some(Ok(None))]_vars

\* updatePhoto has succeeded, after the clock advanced, on a card that has
\* phones and tag links, while another card exists
C30_Witness ==
    /\ Returned(last, "update_card_photo")
    /\ CardExists(db, last.id)
    /\ CardRow(db, last.id).photo_path = last.path
    /\ CardRow(db, last.id).updated_at > CardRow(db, last.id).created_at
    /\ ChildIds(db, last.id).phones # {}
    /\ LinkedTagIds(db, last.id) # {}
    /\ Cardinality(db.cards) = 2

\* the card a store call is about: the id it was given, and for create the
\* id it returned
TargetOf(fr) ==
    IF fr.op = "create_card"
    THEN IF fr.ret # None /\ fr.ret[1].ok THEN fr.ret[1].val ELSE 0
    ELSE fr.id

\* C31: create, update, delete, updatePhoto and clearPhoto on card A leave
\* every other card B as it was: get(B) returns the same scalar fields,
\* photo_url, phones, emails and addresses with the same child ids, tags and
\* timestamps before and after the call, also when A and B share tags; a
\* card that did not exist before is there after the call only as the card
\* the create returned.
C31_AggregateIsolation ==
    [][last'.op \in {"create_card", "update_card", "delete_card",
                     "update_card_photo", "delete_card_photo"} =>
         \A b \in CardIds \ {TargetOf(last')} :
            get_card(db', b) = get_card(db, b)]_vars

\* an update of a card has replaced its tags by tags that another card,
\* with phones or emails of its own, is linked to as well
C31_Witness ==
    /\ Returned(last, "update_card")
    /\ CardExists(db, last.id)
    /\ \E b \in Ids(db.cards) \ {last.id} :
          /\ LinkedTagIds(db, b) \cap LinkedTagIds(db, last.id) # {}
          /\ LinkedTagIds(db, b) # LinkedTagIds(db, last.id)
          /\ ChildIds(db, b).phones \cup ChildIds(db, b).emails # {}
          /\ CardRow(db, b).name # CardRow(db, last.id).name

\* the files named by the non-empty photo_path values of the cards
ReferencedFiles(d) ==
    {FileOf(c.photo_path) : c \in {x \in d.cards : x.photo_path # <<>>}}

\* C32: with one request at a time, each run to its response, and no store
\* or filesystem step failing, whenever no request is in progress the files
\* under the uploads root are exactly the files named by the non-empty
\* photo_path values of the existing cards, and no two cards name the same
\* file.
C32_NoOrphanFiles ==
    procs[1].pc = "done" =>
       /\ files = ReferencedFiles(db)
       /\ \A c1, c2 \in db.cards :
             (c1.photo_path # <<>> /\ c1.photo_path = c2.photo_path) => c1 = c2

\* an upload has been answered 200 after the clock advanced, on a card made
\* before it, while a second card holds a photo of its own
C32_Witness ==
    /\ procs[1].pc = "done"
    /\ procs[1].h = "upload_photo"
    /\ CardExists(db, procs[1].id)
    /\ procs[1].resp = Some(Response(200, FALSE, <<47>> \o CardRow(db, procs[1].id).photo_path))
    /\ CardRow(db, procs[1].id).created_at = 0
    /\ FileOf(CardRow(db, procs[1].id).photo_path) = new_filename(procs[1].id, 1, Png)
    /\ Cardinality(db.cards) = 2
    /\ Cardinality(files) = 2

(***************************************************************************)
(* SpecLive: two concurrent requests whose store calls, the health probe   *)
(* included, contend for the connection lock; a statement may fail.  The   *)
(* calls that insert rows are counted in arrived, the others repeat        *)
(* without limit.                                                          *)
(***************************************************************************)
\* the number of dispatched calls that insert rows
MaxWrites == 2

\* a caller and the number of times its call has locked the connection
LiveCaller(st, fr, locks) == [st |-> st, fr |-> fr, locks |-> locks]

\* the calls that insert rows
GrowingOps == {"create_card", "update_card"}

\* the calls of the concurrent requests
LiveCalls ==
    {Frame("create_card", 0, InputC, <<>>, None, None),
     Frame("update_card", 1, InputB, <<>>, None, None),
     Frame("delete_card", 1, NoInput, <<>>, None, None),
     Frame("list_cards", 0, NoInput, <<>>, None, None),
     Frame("health", 0, NoInput, <<>>, None, None)}

InitLive ==
    /\ db = init_db
    /\ now = 0
    /\ last = NoCall
    /\ lock = 0
    /\ procs = [p \in {1, 2} |-> LiveCaller("idle", NoCall, 0)]
    /\ files = {}
    /\ faults = 0
    /\ arrived = 0

\* spawn_blocking(move || store::f(&conn, ...)), and the closure of health
DispatchL(p) ==
    /\ procs[p].st = "idle"
    /\ \E fr \in LiveCalls :
          /\ fr.op \in GrowingOps => arrived < MaxWrites
          /\ arrived' = IF fr.op \in GrowingOps THEN arrived + 1 ELSE arrived
          /\ procs' = [procs EXCEPT ![p] = LiveCaller("waiting", fr, 0)]
    /\ UNCHANGED <<db, now, last, lock, files, faults>>

\* let conn = conn.lock().unwrap(): the first line of every store function
AcquireL(p) ==
    /\ procs[p].st = "waiting"
    /\ MutexFree(lock)
    /\ lock' = p
    /\ procs' = [procs EXCEPT ![p].st = "running", ![p].locks = @ + 1]
    /\ UNCHANGED <<db, now, last, files, faults, arrived>>

\* the next statement of the call and, after the last one, its return (as
\* Exec); with the return the guard is dropped
StepL(p) ==
    /\ procs[p].st = "running"
    /\ \E ord \in OrdersOf(db, procs[p].fr) :
       \E s \in {ExecStmt(db, now, procs[p].fr, ord)} :
       \E r \in {[db |-> s.db, fr |-> Return(s.fr)]} :
          /\ db' = r.db
          /\ procs' = [procs EXCEPT
                ![p].st = IF r.fr.ret = None THEN "running" ELSE "done",
                ![p].fr = r.fr]
          /\ lock' = IF r.fr.ret = None THEN lock ELSE 0
    /\ UNCHANGED <<now, last, files, faults, arrived>>

\* an error return that leaves the guard alive
FailHoldsGuard(p) ==
    /\ procs[p].st = "running"
    /\ faults < MaxFaults
    /\ faults' = faults + 1
    /\ \E swallowed \in BOOLEAN : \E f \in {FailStmt(procs[p].fr, swallowed)} :
          procs' = [procs EXCEPT ![p].st = IF f.ret = None THEN "running" ELSE "done",
                                 ![p].fr = f]
    /\ lock' = lock
    /\ UNCHANGED <<db, now, last, files, arrived>>

\* the next statement fails: `?` returns the error and the guard is dropped;
\* list_cards goes on, with the guard, after a swallowed failure
FailL(p) ==
    /\ procs[p].st = "running"
    /\ faults < MaxFaults
    /\ faults' = faults + 1
    /\ \E swallowed \in BOOLEAN : \E f \in {FailStmt(procs[p].fr, swallowed)} :
          /\ procs' = [procs EXCEPT ![p].st = IF f.ret = None THEN "running" ELSE "done",
                                    ![p].fr = f]
          /\ lock' = IF f.ret = None THEN lock ELSE 0
    /\ UNCHANGED <<db, now, last, files, arrived>>

\* .await returns the result of the blocking task to the handler
CollectL(p) ==
    /\ procs[p].st = "done"
    /\ procs' = [procs EXCEPT ![p] = LiveCaller("idle", NoCall, 0)]
    /\ UNCHANGED <<db, now, last, lock, files, faults, arrived>>

NextLive ==
    \E p \in {1, 2} :
        DispatchL(p) \/ AcquireL(p) \/ StepL(p) \/ FailL(p) \/ CollectL(p)

\* scheduling: a blocking thread that finds the lock free for good takes it,
\* and the thread that holds it runs its next statement; std::sync::Mutex
\* promises no order among the threads that wait for it
SpecLive ==
    /\ InitLive
    /\ [][NextLive]_vars
    /\ \A p \in {1, 2} : WF_vars(AcquireL(p)) /\ WF_vars(StepL(p))

\* every store call locks the connection exactly once: the holder of the
\* lock is exactly the caller that runs its statements, it has a next
\* statement to run that waits for no other request, and a caller that is
\* idle, waiting or returned (with a value or an error) holds nothing
LockedOnce ==
    \A p \in DOMAIN procs :
        /\ lock = p <=> procs[p].st = "running"
        /\ procs[p].st = "running" =>
              /\ procs[p].fr.ret = None
              /\ procs[p].fr.pc <= Len(Program(procs[p].fr))
        /\ procs[p].locks = IF procs[p].st \in {"running", "done"} THEN 1 ELSE 0
        /\ procs[p].st = "done" => procs[p].fr.ret # None

\* the lock is taken only when it is free and freed only by the return of
\* its holder
LockHandOver ==
    lock' # lock =>
        \/ /\ lock = 0
           /\ procs[lock'].st = "waiting" /\ procs'[lock'].st = "running"
        \/ /\ lock' = 0
           /\ procs[lock].st = "running" /\ procs'[lock].st = "done"

\* C33 as stated: every store call locks the connection exactly once, the
\* lock is taken only when it is free and freed only by the return of its
\* holder.  Hence, under fair scheduling, every dispatched call of each of
\* the concurrent requests returns.
C33_DeadlockFreedom ==
    /\ []LockedOnce
    /\ [][LockHandOver]_vars
    /\ \A p \in {1, 2} :
          (procs[p].st \in {"waiting", "running"}) ~> (procs[p].st = "done")

\* C33: every store call locks the connection exactly once, the lock is
\* taken only when it is free and freed only by the return of its holder.
\* Hence every call that has the lock returns, and a dispatched call that
\* waits for the lock gets it unless the other request's calls take the lock
\* again and again ahead of it.
C33_NoDeadlock ==
    /\ []LockedOnce
    /\ [][LockHandOver]_vars
    /\ \A p \in {1, 2} :
          /\ (procs[p].st = "running") ~> (procs[p].st = "done")
          /\ \/ []<>(procs[p].st # "waiting")
             \/ []<><<AcquireL(3 - p)>>_vars

\* an update has returned a storage error from a later statement and holds
\* nothing, while the other request's call runs its statements with the lock
C33_Witness ==
    \E p, q \in DOMAIN procs :
        /\ procs[p].st = "done"
        /\ procs[p].fr.op = "update_card"
        /\ procs[p].fr.ret = Some(Err("storage"))
        /\ procs[p].fr.pc > 1
        /\ procs[q].st = "running"
        /\ procs[q].fr.pc > 1
        /\ lock = q
====
